---- MODULE Spec2Model ----
(***************************************************************************)
(* PolyEdge signal pipeline: the Tracker (services/tracking/tracker.py),   *)
(* the Signal model (models/signal.py), the signal store                   *)
(* (db/client.py) and the market lifecycle filter                          *)
(* (services/data_sources/polymarket.py).                                  *)
(*                                                                         *)
(* The Scanner (services/signals/scanner.py) is modelled by the call: one   *)
(* action per public method, its collaborators' answers drawn as inputs.  *)
(* The Generator (services/signals/generator.py), its rules                *)
(* (services/signals/rules.py) and the market tiers (models/market.py) are *)
(* modelled the same way.  The RateLimitedClient                           *)
(* (services/data_sources/rate_limiter.py) is modelled in two steps, up to *)
(* and from the await of the wrapped call, with its clock in seconds.      *)
(*                                                                         *)
(* Conventions.  Optional[T] is a sequence of length at most one: None is  *)
(* <<>> and a present value x is <<x>>.  Prices are in cents (a price in   *)
(* [0,1] is 0..100).  A gain is the exact rational the formula denotes, a  *)
(* reduced fraction <<numerator, denominator>> with denominator > 0;       *)
(* float rounding is not modelled.  Time is in whole hours.                *)
(***************************************************************************)
EXTENDS Integers, Sequences, FiniteSets, TLC

VARIABLES store, clock, run, last, scan, generator, limiter

vars == <<store, clock, run, last, scan, generator, limiter>>

-----------------------------------------------------------------------------
(* Bounds *)

\* number of signals in the store of the tracking specification
NumSignals == 1

\* number of signals in the store of the batch specification
BatchSize == 2

\* number of signals in the store of the sweep specification
SweepStoreSize == 101

\* number of signals in the store of the background loop specification
LoopSize == 2

\* longest list of markets the market source returns to the discovery
MaxListed == 3

\* number of markets of a scan
ScanSize == 3

\* number of market ids of the generator specification
NumMarkets == 2

\* number of calls of execute that can wait for the wrapped call at once
MaxPending == 2

\* number of steps of the clock of the rate limiter specification
LimiterTicks == 5

\* longest list of markets a market source holds
MaxHeld == 3

-----------------------------------------------------------------------------
(* Program constants *)

Horizon1h == 1
Horizon24h == 24
Horizon7d == 168
TrackingExpireDays == 30
HoursPerDay == 24
TrackingIntervalHours == 1
MinPriceForSignals == 5
MaxPriceForSignals == 95
ActiveLimit == 100
MaxPriceCents == 100

-----------------------------------------------------------------------------
(* Optional values *)

None == <<>>
Some(x) == <<x>>
Val(o) == o[1]

-----------------------------------------------------------------------------
(* Exact rationals for gains *)

Abs(n) == IF n < 0 THEN 0 - n ELSE n

RECURSIVE GCD(_, _)
GCD(a, b) == IF b = 0 THEN a ELSE GCD(b, a % b)

\* n / d for d > 0, in lowest terms
Frac(n, d) ==
    LET g == GCD(Abs(n), d)
    IN  <<n \div g, d \div g>>

Neg(f) == <<0 - f[1], f[2]>>

-----------------------------------------------------------------------------
(* models/signal.py *)

SignalStatus == {"ACTIVE", "RESOLVED_WIN", "RESOLVED_LOSS", "EXPIRED"}
SignalDirection == {"BUY", "SELL"}
TerminalStatus == {"RESOLVED_WIN", "RESOLVED_LOSS", "EXPIRED"}

\* Signal(...) as the Generator creates it: ACTIVE, tracking block unset
Signal(id, created_at, direction, entry_price) ==
    [id |-> id, created_at |-> created_at,
     direction |-> direction, entry_price |-> entry_price,
     price_1h |-> None, price_24h |-> None, price_7d |-> None,
     price_at_resolution |-> None,
     gain_1h_pct |-> None, gain_24h_pct |-> None, gain_7d_pct |-> None,
     gain_final_pct |-> None,
     status |-> "ACTIVE", resolved_at |-> None]

\* calculate_gain without the SELL branch
CalculateGain_IgnoreDirection(signal, current_price) ==
    Frac((current_price - signal.entry_price) * 100, signal.entry_price)

\* Signal.calculate_gain
CalculateGain(signal, current_price) ==
    IF signal.direction = "BUY"
    THEN Frac((current_price - signal.entry_price) * 100, signal.entry_price)
    ELSE Frac((signal.entry_price - current_price) * 100, signal.entry_price)

-----------------------------------------------------------------------------
(* services/data_sources/polymarket.py *)

\* the fields of Market the tracker reads
Market(closed, archived, accepting_orders, end_date, current_price) ==
    [closed |-> closed, archived |-> archived,
     accepting_orders |-> accepting_orders,
     end_date |-> end_date, current_price |-> current_price]

\* is_market_current without the archived test
IsMarketCurrent_ArchivedOk(market, now) ==
    IF market.closed THEN FALSE
    ELSE IF ~market.accepting_orders THEN FALSE
    ELSE IF market.end_date # None /\ Val(market.end_date) < now THEN FALSE
    ELSE TRUE

IsMarketCurrent(market, now) ==
    IF market.closed THEN FALSE
    ELSE IF market.archived THEN FALSE
    ELSE IF ~market.accepting_orders THEN FALSE
    ELSE IF market.end_date # None /\ Val(market.end_date) < now THEN FALSE
    ELSE TRUE

-----------------------------------------------------------------------------
(* db/client.py *)

\* an update_signal that drops the gains that are zero with the None values
DbUpdateSignal_DropsZeroGain(row, signal) ==
    LET kept(gain) == gain # None /\ Val(gain)[1] # 0 IN
    [row EXCEPT
        !.price_1h = IF signal.price_1h # None THEN signal.price_1h ELSE @,
        !.price_24h = IF signal.price_24h # None THEN signal.price_24h ELSE @,
        !.price_7d = IF signal.price_7d # None THEN signal.price_7d ELSE @,
        !.price_at_resolution =
            IF signal.price_at_resolution # None
            THEN signal.price_at_resolution ELSE @,
        !.gain_1h_pct = IF kept(signal.gain_1h_pct) THEN signal.gain_1h_pct ELSE @,
        !.gain_24h_pct = IF kept(signal.gain_24h_pct) THEN signal.gain_24h_pct ELSE @,
        !.gain_7d_pct = IF kept(signal.gain_7d_pct) THEN signal.gain_7d_pct ELSE @,
        !.gain_final_pct =
            IF kept(signal.gain_final_pct) THEN signal.gain_final_pct ELSE @,
        !.status = signal.status,
        !.resolved_at =
            IF signal.resolved_at # None THEN signal.resolved_at ELSE @]

\* SupabaseClient.update_signal: the row takes every tracking field of the
\* in-memory signal that is not None
DbUpdateSignal(row, signal) ==
    [row EXCEPT
        !.price_1h = IF signal.price_1h # None THEN signal.price_1h ELSE @,
        !.price_24h = IF signal.price_24h # None THEN signal.price_24h ELSE @,
        !.price_7d = IF signal.price_7d # None THEN signal.price_7d ELSE @,
        !.price_at_resolution =
            IF signal.price_at_resolution # None
            THEN signal.price_at_resolution ELSE @,
        !.gain_1h_pct =
            IF signal.gain_1h_pct # None THEN signal.gain_1h_pct ELSE @,
        !.gain_24h_pct =
            IF signal.gain_24h_pct # None THEN signal.gain_24h_pct ELSE @,
        !.gain_7d_pct =
            IF signal.gain_7d_pct # None THEN signal.gain_7d_pct ELSE @,
        !.gain_final_pct =
            IF signal.gain_final_pct # None THEN signal.gain_final_pct ELSE @,
        !.status = signal.status,
        !.resolved_at =
            IF signal.resolved_at # None THEN signal.resolved_at ELSE @]

\* order("created_at", desc=True): the newest signal of a non-empty set
Newest(rows) ==
    CHOOSE s \in rows :
        \A t \in rows :
            \/ t.created_at < s.created_at
            \/ t.created_at = s.created_at /\ t.id <= s.id

RECURSIVE OrderDesc(_, _)
\* the first `limit` rows of `rows`, newest first
OrderDesc(rows, limit) ==
    IF rows = {} \/ limit = 0 THEN <<>>
    ELSE LET s == Newest(rows)
         IN  <<s>> \o OrderDesc(rows \ {s}, limit - 1)

\* SupabaseClient.get_signals(status=..., limit=...)
GetSignals(db, status, limit) ==
    OrderDesc({db[i] : i \in {j \in DOMAIN db : db[j].status = status}}, limit)

\* SupabaseClient.get_active_signals
GetActiveSignals(db) == GetSignals(db, "ACTIVE", ActiveLimit)

-----------------------------------------------------------------------------
(* services/tracking/tracker.py *)

\* a gain of zero counted as a win
IsWin_ZeroWins(gain) == gain[1] >= 0

\* is_win = gain > 0
IsWin(gain) == gain[1] > 0

\* SignalTracker._resolve_signal
ResolveSignal(signal, market, now) ==
    IF market.current_price = None THEN signal
    ELSE LET final_price == Val(market.current_price)
             gain == CalculateGain(signal, final_price)
             is_win == IsWin(gain)
         IN  [signal EXCEPT
                 !.price_at_resolution = Some(final_price),
                 !.gain_final_pct = Some(gain),
                 !.status = IF is_win THEN "RESOLVED_WIN" ELSE "RESOLVED_LOSS",
                 !.resolved_at = Some(now)]

\* a checkpoint that overwrites a price already set
HorizonDue_Overwrite(hours, horizon, price) == hours >= horizon

\* a checkpoint that does not wait for its horizon
HorizonDue_AnyTime(hours, horizon, price) == price = None

\* the test of a checkpoint: the horizon is reached and its price is unset
HorizonDue(hours, horizon, price) == hours >= horizon /\ price = None

\* a resolution that does not look at the signal's status
ShouldResolve_AnyStatus(signal, market) == market.closed

\* the test of a resolution: the market is closed and the signal is ACTIVE
ShouldResolve(signal, market) == market.closed /\ signal.status = "ACTIVE"

\* the 1h checkpoint of update_signal_tracking
Track1h(signal, current_price, hours) ==
    IF HorizonDue(hours, Horizon1h, signal.price_1h)
    THEN [signal EXCEPT !.price_1h = Some(current_price),
                        !.gain_1h_pct = Some(CalculateGain(signal, current_price))]
    ELSE signal

\* the 24h checkpoint of update_signal_tracking
Track24h(signal, current_price, hours) ==
    IF HorizonDue(hours, Horizon24h, signal.price_24h)
    THEN [signal EXCEPT !.price_24h = Some(current_price),
                        !.gain_24h_pct = Some(CalculateGain(signal, current_price))]
    ELSE signal

\* the 7d checkpoint of update_signal_tracking
Track7d(signal, current_price, hours) ==
    IF HorizonDue(hours, Horizon7d, signal.price_7d)
    THEN [signal EXCEPT !.price_7d = Some(current_price),
                        !.gain_7d_pct = Some(CalculateGain(signal, current_price))]
    ELSE signal

\* the resolution check that follows the checkpoints
TrackClosed(signal, market, now) ==
    IF ShouldResolve(signal, market)
    THEN ResolveSignal(signal, market, now)
    ELSE signal

\* a first test that lets a closed market without a price through
NoMarketData_ClosedPasses(market) ==
    market = None \/ (Val(market).current_price = None /\ ~Val(market).closed)

\* the first test of update_signal_tracking: no market or no current price
NoMarketData(market) == market = None \/ Val(market).current_price = None

\* The outcome of one call of update_signal_tracking(signal) when the market
\* source answers `market` (None: not found / unavailable) at time `now`.
\* fault: "none", "fetch" (the market source raises) or "write" (the store
\* raises in update_signal).  signal: the in-memory signal when the call
\* ends; write: db.update_signal was called; raised: the call raised.
UpdateSignalTracking(signal, market, now, fault) ==
    IF fault = "fetch"
    THEN [signal |-> signal, write |-> FALSE, raised |-> TRUE]
    ELSE IF NoMarketData(market)
    THEN [signal |-> signal, write |-> FALSE, raised |-> FALSE]
    ELSE LET m == Val(market) IN
         IF ~IsMarketCurrent(m, now)
         THEN IF ShouldResolve(signal, m)
              THEN [signal |-> ResolveSignal(signal, m, now),
                    write |-> TRUE, raised |-> (fault = "write")]
              ELSE [signal |-> signal, write |-> FALSE, raised |-> FALSE]
         ELSE LET current_price == Val(m.current_price)
                  hours == now - signal.created_at
                  s1 == Track1h(signal, current_price, hours)
                  s2 == Track24h(s1, current_price, hours)
                  s3 == Track7d(s2, current_price, hours)
                  s4 == TrackClosed(s3, m, now)
                  updated ==
                      \/ HorizonDue(hours, Horizon1h, signal.price_1h)
                      \/ HorizonDue(hours, Horizon24h, s1.price_24h)
                      \/ HorizonDue(hours, Horizon7d, s2.price_7d)
                      \/ ShouldResolve(s3, m)
              IN  [signal |-> s4, write |-> updated,
                   raised |-> (updated /\ fault = "write")]

\* the store after the call: the row is rewritten when update_signal ran
\* and did not raise
StoreAfter(db, id, out) ==
    IF out.write /\ ~out.raised
    THEN [db EXCEPT ![id] = DbUpdateSignal(@, out.signal)]
    ELSE db

\* The outcome of the loop body of expire_stale_signals for one signal of
\* the fetched list; a raise of update_signal leaves the sweep
ExpireSignal(signal, cutoff, now, fault) ==
    IF signal.created_at < cutoff
    THEN [signal |-> [signal EXCEPT !.status = "EXPIRED",
                                    !.resolved_at = Some(now)],
          write |-> TRUE, raised |-> (fault = "write")]
    ELSE [signal |-> signal, write |-> FALSE, raised |-> FALSE]

\* a loop body without the try / except: a raise ends the batch
UpdateAllVisit_Abort(r, out) ==
    IF out.raised
    THEN [r EXCEPT !.list = <<>>, !.failed = @ + 1, !.attempted = @ + 1]
    ELSE [r EXCEPT !.list = Tail(@), !.count = @ + 1, !.attempted = @ + 1]

\* update_all_active_signals, the loop body: the try counts the call, the
\* except logs it; either way the loop goes on to the next signal
UpdateAllVisit(r, out) ==
    [r EXCEPT !.list = Tail(@),
              !.count = IF out.raised THEN @ ELSE @ + 1,
              !.failed = IF out.raised THEN @ + 1 ELSE @,
              !.attempted = @ + 1]

\* expire_stale_signals, the loop body: nothing catches a raise of
\* update_signal, which ends the sweep
ExpireVisit(r, out) ==
    IF out.raised
    THEN [r EXCEPT !.op = "idle", !.list = <<>>, !.n = 0, !.count = 0,
                   !.attempted = 0, !.failed = 0, !.cutoff = 0]
    ELSE [r EXCEPT !.list = Tail(@),
                   !.count = IF out.write THEN @ + 1 ELSE @,
                   !.attempted = @ + 1]

-----------------------------------------------------------------------------
(* Environment: the answers of the market source, the faults, the clock *)

\* a market that is current and tradeable
OpenMarket(price) == Market(FALSE, FALSE, TRUE, None, price)
\* a closed market
ClosedMarket(price) == Market(TRUE, FALSE, FALSE, None, price)
\* an archived market that was never closed
ArchivedMarket(price) == Market(FALSE, TRUE, TRUE, None, price)
\* a market that takes no orders but is not closed
PausedMarket(price) == Market(FALSE, FALSE, FALSE, None, price)
\* a market past its end date that was never closed
EndedMarket(price) == Market(FALSE, FALSE, TRUE, Some(0), price)

\* what get_market returns: None, or a market
MarketAnswers ==
    {None,
     Some(OpenMarket(Some(40))), Some(OpenMarket(Some(60))),
     Some(OpenMarket(None)),
     Some(ClosedMarket(Some(40))), Some(ClosedMarket(Some(60))),
     Some(ClosedMarket(None)),
     Some(ArchivedMarket(Some(60))), Some(PausedMarket(Some(60))),
     Some(EndedMarket(Some(60)))}

Faults == {"none", "fetch", "write"}

\* the instants at which something runs
Instants == {1, 23, 24, 167, 168, 720, 721}

\* the coarser environment of the batch specification
BatchAnswers ==
    {None, Some(OpenMarket(Some(60))), Some(ClosedMarket(Some(60)))}
BatchFaults == {"none", "fetch", "write"}
BatchInstants == {24, 721, 722}

\* the instants of the sweep specification
SweepInstants == {720, 721, 830}

\* the signals of the store: created one hour apart, alternately BUY and
\* SELL, with entry prices 0.40 and 0.50
Direction(i) == IF i % 2 = 1 THEN "BUY" ELSE "SELL"
EntryPrice(i) == IF i % 2 = 1 THEN 40 ELSE 50
CreatedAt(i) == i - 1

NewStore(size) ==
    [i \in 1..size |-> Signal(i, CreatedAt(i), Direction(i), EntryPrice(i))]

-----------------------------------------------------------------------------
(* State *)

\* run: the batch in progress (update_all_active_signals or
\* expire_stale_signals): the signals of active_signals not yet visited,
\* len(active_signals), the counter, the number of signals visited, the
\* number of visits that raised, the cutoff of the sweep
Idle ==
    [op |-> "idle", list |-> <<>>, n |-> 0, count |-> 0, attempted |-> 0,
     failed |-> 0, cutoff |-> 0]

\* last: the call that has just ended ("none" after any other step): the
\* signal it was given, what the market source answered, whether
\* db.update_signal was called, whether the call raised; for a batch that
\* has returned, its counters; for a call of calculate_gain, the signal,
\* the price and the gain returned
NoLast ==
    [op |-> "none", id |-> 0, market |-> None,
     write |-> FALSE, raised |-> FALSE,
     signal |-> None, price |-> None, gain |-> None,
     n |-> 0, count |-> 0, attempted |-> 0, failed |-> 0, cutoff |-> 0]

\* scan: the call of the scanner that has just ended ("none" when there is
\* none): what it was given, what its collaborators answered, what it
\* returned, the calls it made to the Generator and the writes it made to
\* the store
NoScan ==
    [op |-> "none", settings |-> <<>>, override |-> <<>>, persist |-> FALSE,
     env |-> <<>>, markets |-> <<>>, result |-> <<>>, calls |-> <<>>,
     writes |-> <<>>]

\* generator: the Generator, its cache of previous market states (a function
\* from market id to the remembered pair, None where there is none) and the
\* call that has just ended ("none" when there is none)
NoGenerator == [previous_states |-> <<>>, call |-> [op |-> "none"]]

\* limiter: a RateLimitedClient, its fields; the number of calls of execute
\* that wait for the wrapped call (`pending`); the latest window a rate-limit
\* signal recorded since the last successful call, and whether a retry-after
\* value gave it (`streak`, None when there is none); and the step of
\* execute that has just ended ("none" when there is none)
NoLimiter ==
    [rate_limited_until |-> None, consecutive_failures |-> 0,
     last_error |-> None, pending |-> 0, streak |-> None,
     call |-> [op |-> "none"]]

InitOf(size) ==
    /\ store = NewStore(size)
    /\ clock = size - 1
    /\ run = Idle
    /\ last = NoLast
    /\ scan = NoScan
    /\ generator = NoGenerator
    /\ limiter = NoLimiter

\* what one call leaves behind
TickRecord(op, id, market, out) ==
    [NoLast EXCEPT !.op = op, !.id = id, !.market = market,
                   !.write = out.write, !.raised = out.raised]

\* the market answer as far as the call saw it: nothing when the fetch raised
Seen(market, fault) == IF fault = "fetch" THEN None ELSE market

-----------------------------------------------------------------------------
(* Operations *)

\* time passes
AdvanceClock(instants) ==
    /\ \E t \in instants : t > clock /\ clock' = t
    /\ last' = NoLast
    /\ UNCHANGED <<store, run, scan, generator, limiter>>

\* routes/tracking.py update_single_signal: get_signal(id), whatever its
\* status, then update_signal_tracking(signal)
UpdateSingleSignal(answers, faults) ==
    /\ run.op = "idle"
    /\ \E id \in DOMAIN store, market \in answers, fault \in faults :
          LET signal == store[id]
              out == UpdateSignalTracking(signal, Seen(market, fault), clock, fault)
          IN  /\ store' = StoreAfter(store, id, out)
              /\ last' = TickRecord("update", id, Seen(market, fault), out)
    /\ UNCHANGED <<clock, run, scan, generator, limiter>>

\* update_all_active_signals: active_signals = get_active_signals()
StartUpdateAll ==
    /\ run.op = "idle"
    /\ LET active_signals == GetActiveSignals(store)
       IN  run' = [Idle EXCEPT !.op = "update_all", !.list = active_signals,
                               !.n = Len(active_signals)]
    /\ last' = NoLast
    /\ UNCHANGED <<store, clock, scan, generator, limiter>>

\* update_all_active_signals: one iteration of the loop (try / except)
UpdateAllStep(answers, faults) ==
    /\ run.op = "update_all"
    /\ run.list # <<>>
    /\ \E market \in answers, fault \in faults :
          LET signal == Head(run.list)
              out == UpdateSignalTracking(signal, Seen(market, fault), clock, fault)
          IN  /\ store' = StoreAfter(store, signal.id, out)
              /\ run' = UpdateAllVisit(run, out)
              /\ last' = TickRecord("update", signal.id, Seen(market, fault), out)
    /\ UNCHANGED <<clock, scan, generator, limiter>>

\* update_all_active_signals: the loop is over, return updated_count
FinishUpdateAll ==
    /\ run.op = "update_all"
    /\ run.list = <<>>
    /\ last' = [NoLast EXCEPT !.op = "update_all_done", !.n = run.n,
                              !.count = run.count, !.attempted = run.attempted,
                              !.failed = run.failed]
    /\ run' = Idle
    /\ UNCHANGED <<store, clock, scan, generator, limiter>>

\* expire_stale_signals(max_age_days): cutoff, then get_active_signals()
StartExpire ==
    /\ run.op = "idle"
    /\ LET active_signals == GetActiveSignals(store)
       IN  run' = [Idle EXCEPT !.op = "expire", !.list = active_signals,
                               !.n = Len(active_signals),
                               !.cutoff = clock - TrackingExpireDays * HoursPerDay]
    /\ last' = NoLast
    /\ UNCHANGED <<store, clock, scan, generator, limiter>>

\* expire_stale_signals: one iteration of the loop; a raise of
\* update_signal is not caught and ends the sweep
ExpireStep(faults) ==
    /\ run.op = "expire"
    /\ run.list # <<>>
    /\ \E fault \in faults \ {"fetch"} :
          LET signal == Head(run.list)
              out == ExpireSignal(signal, run.cutoff, clock, fault)
          IN  /\ store' = StoreAfter(store, signal.id, out)
              /\ run' = ExpireVisit(run, out)
              /\ last' = [TickRecord("expire", signal.id, None, out)
                             EXCEPT !.cutoff = run.cutoff]
    /\ UNCHANGED <<clock, scan, generator, limiter>>

\* expire_stale_signals: the loop is over, return expired_count
FinishExpire ==
    /\ run.op = "expire"
    /\ run.list = <<>>
    /\ last' = [NoLast EXCEPT !.op = "expire_done", !.n = run.n,
                              !.count = run.count, !.attempted = run.attempted,
                              !.cutoff = run.cutoff]
    /\ run' = Idle
    /\ UNCHANGED <<store, clock, scan, generator, limiter>>

-----------------------------------------------------------------------------
(* Specifications *)

\* the life of the signals of a small store, full environment; the
\* operations run one after another (a batch ends before the next starts)
Init == InitOf(NumSignals)

Next ==
    \/ AdvanceClock(Instants)
    \/ UpdateSingleSignal(MarketAnswers, Faults)
    \/ StartUpdateAll
    \/ UpdateAllStep(MarketAnswers, Faults)
    \/ FinishUpdateAll
    \/ StartExpire
    \/ ExpireStep(Faults)
    \/ FinishExpire

Spec == Init /\ [][Next]_vars

\* the batches over a store of several signals, coarser environment
InitBatch == InitOf(BatchSize)

NextBatch ==
    \/ AdvanceClock(BatchInstants)
    \/ UpdateSingleSignal(BatchAnswers, BatchFaults)
    \/ StartUpdateAll
    \/ UpdateAllStep(BatchAnswers, BatchFaults)
    \/ FinishUpdateAll
    \/ StartExpire
    \/ ExpireStep(BatchFaults)
    \/ FinishExpire

SpecBatch == InitBatch /\ [][NextBatch]_vars

\* the expiry sweep over a store of more signals than one page holds
InitSweep ==
    /\ store = NewStore(SweepStoreSize)
    /\ clock \in SweepInstants
    /\ run = Idle
    /\ last = NoLast
    /\ scan = NoScan
    /\ generator = NoGenerator
    /\ limiter = NoLimiter

NextSweep ==
    \/ AdvanceClock(SweepInstants)
    \/ StartExpire
    \/ ExpireStep(BatchFaults)
    \/ FinishExpire

SpecSweep == InitSweep /\ [][NextSweep]_vars

\* calculate_gain on every direction, entry price and current price
InitGain ==
    /\ store = NewStore(0)
    /\ clock = 0
    /\ run = Idle
    /\ scan = NoScan
    /\ generator = NoGenerator
    /\ limiter = NoLimiter
    /\ \E d \in SignalDirection, e \in 1..MaxPriceCents, p \in 0..MaxPriceCents :
          last = [NoLast EXCEPT !.op = "gain_call",
                                !.signal = Some(Signal(0, 0, d, e)),
                                !.price = Some(p)]

CalculateGainCall ==
    /\ last.op = "gain_call"
    /\ last' = [last EXCEPT
                    !.op = "gain",
                    !.gain = Some(CalculateGain(Val(last.signal), Val(last.price)))]
    /\ UNCHANGED <<store, clock, run, scan, generator, limiter>>

NextGain == CalculateGainCall

SpecGain == InitGain /\ [][NextGain]_vars

-----------------------------------------------------------------------------
(* api/app.py: tracking_background_task *)

\* the instants at which the background loop wakes up
LoopInstants == {24, 721, 722}

\* an except clause that lets the exception end the task
LoopCatch_Reraise == [Idle EXCEPT !.op = "stopped"]

\* except Exception: the error is logged and the loop goes on to its sleep
LoopCatch == [Idle EXCEPT !.op = "sleep"]

\* what the loop leaves behind at each of its positions; failed: the tick
\* before this one ended in the except clause
LoopRecord(op, failed) == [NoLast EXCEPT !.op = op, !.failed = failed]

\* the top of the try: update_all_active_signals is called and fetches the
\* ACTIVE signals; get_tracker or the fetch may raise
LoopUpdateAll(faults) ==
    /\ run.op = "tick"
    /\ \E fault \in faults \ {"write"} :
          IF fault = "fetch"
          THEN run' = Idle
          ELSE LET active_signals == GetActiveSignals(store)
               IN  run' = [Idle EXCEPT !.op = "update_all",
                                       !.list = active_signals,
                                       !.n = Len(active_signals)]
    /\ last' = NoLast
    /\ UNCHANGED <<store, clock, scan, generator, limiter>>

\* update_all_active_signals has returned; expire_stale_signals is called
\* with tracking_expire_days and fetches the ACTIVE signals; the fetch may
\* raise
LoopExpire(faults) ==
    /\ run.op = "update_all"
    /\ run.list = <<>>
    /\ \E fault \in faults \ {"write"} :
          IF fault = "fetch"
          THEN run' = Idle
          ELSE LET active_signals == GetActiveSignals(store)
               IN  run' = [Idle EXCEPT
                              !.op = "expire", !.list = active_signals,
                              !.n = Len(active_signals),
                              !.cutoff = clock - TrackingExpireDays * HoursPerDay]
    /\ last' = NoLast
    /\ UNCHANGED <<store, clock, scan, generator, limiter>>

\* expire_stale_signals has returned: set_last_tracking_run, the log line,
\* and on to the sleep
LoopTickDone ==
    /\ run.op = "expire"
    /\ run.list = <<>>
    /\ run' = [Idle EXCEPT !.op = "sleep"]
    /\ last' = LoopRecord("tick_done", 0)
    /\ UNCHANGED <<store, clock, scan, generator, limiter>>

\* an exception has left update_all_active_signals or expire_stale_signals:
\* the except clause of the loop
LoopExcept ==
    /\ run.op = "idle"
    /\ run' = LoopCatch
    /\ last' = LoopRecord("tick_failed", 0)
    /\ UNCHANGED <<store, clock, scan, generator, limiter>>

\* asyncio.sleep(tracking_interval_minutes * 60) returns and the loop is at
\* the top of its try again; the clock of the model stops at its last
\* instant, the loop does not
LoopWake ==
    /\ run.op = "sleep"
    /\ run' = [Idle EXCEPT !.op = "tick"]
    /\ IF \E t \in LoopInstants : t >= clock + TrackingIntervalHours
       THEN \E t \in LoopInstants :
               t >= clock + TrackingIntervalHours /\ clock' = t
       ELSE clock' = clock
    /\ last' = LoopRecord("tick", IF last.op = "tick_failed" THEN 1 ELSE 0)
    /\ UNCHANGED <<store, scan, generator, limiter>>

\* the task after its start-up delay, at the top of the first try
InitLoop ==
    /\ store = NewStore(LoopSize)
    /\ clock = LoopSize - 1
    /\ run = [Idle EXCEPT !.op = "tick"]
    /\ last = LoopRecord("tick", 0)
    /\ scan = NoScan
    /\ generator = NoGenerator
    /\ limiter = NoLimiter

NextLoop ==
    \/ LoopUpdateAll(BatchFaults)
    \/ UpdateAllStep(BatchAnswers, BatchFaults)
    \/ LoopExpire(BatchFaults)
    \/ ExpireStep(BatchFaults)
    \/ LoopTickDone
    \/ LoopExcept
    \/ LoopWake

\* the event loop runs the task whenever it can take a step
SpecLoop == InitLoop /\ [][NextLoop]_vars /\ WF_vars(NextLoop)

-----------------------------------------------------------------------------
(* services/signals/scanner.py: the market universe *)

\* what a call to a collaborator gives: a value, or an exception
Returns(value) == [raised |-> FALSE, value |-> value]
Raises == [raised |-> TRUE, value |-> None]

\* a market as the market source lists it: the fields of Market the
\* scanner reads, the slug being the id
ListedMarket(id, volume, market) ==
    [id |-> id, slug |-> id, volume |-> volume,
     closed |-> market.closed, archived |-> market.archived,
     accepting_orders |-> market.accepting_orders,
     end_date |-> market.end_date, current_price |-> market.current_price]

\* PolymarketDataSource.get_market_by_slug(slug, require_current) when the
\* fetch answers `answer`
GetMarketBySlug(answer, require_current, now) ==
    IF answer.raised THEN Raises
    ELSE IF /\ answer.value # None
            /\ require_current
            /\ ~IsMarketCurrent(Val(answer.value), now)
    THEN Returns(None)
    ELSE answer

\* PolymarketDataSource.get_markets(active, limit, filter_current) when the
\* fetch answers `answer`
GetMarkets(answer, filter_current, now) ==
    IF answer.raised THEN Raises
    ELSE IF filter_current
    THEN Returns(SelectSeq(answer.value, LAMBDA m : IsMarketCurrent(m, now)))
    ELSE answer

RECURSIVE FetchBySlugs(_, _, _)
\* get_markets_to_scan, the loop over slugs_to_fetch: a market that is found
\* and current is appended; an exception is logged and the slug skipped
FetchBySlugs(slugs, by_slug, now) ==
    IF slugs = <<>> THEN <<>>
    ELSE LET market == GetMarketBySlug(by_slug[Head(slugs)], TRUE, now)
             rest == FetchBySlugs(Tail(slugs), by_slug, now)
         IN  IF ~market.raised /\ market.value # None
             THEN <<Val(market.value)>> \o rest
             ELSE rest

\* _discover_markets, the quality filters of the loop
PassesDiscovery(m, exclude_ids, min_volume) ==
    /\ m.id \notin exclude_ids
    /\ ~(m.volume < min_volume)
    /\ m.current_price # None =>
          /\ ~(Val(m.current_price) < MinPriceForSignals)
          /\ ~(Val(m.current_price) > MaxPriceForSignals)

\* the sequence without its k-th element
RemoveAt(seq, k) == SubSeq(seq, 1, k - 1) \o SubSeq(seq, k + 1, Len(seq))

RECURSIVE SortByVolumeDesc(_)
\* discovered.sort(key=volume, reverse=True): stable, largest volume first
SortByVolumeDesc(ms) ==
    IF ms = <<>> THEN <<>>
    ELSE LET k == CHOOSE i \in 1..Len(ms) :
                     /\ \A j \in 1..Len(ms) : ms[j].volume <= ms[i].volume
                     /\ \A j \in 1..(i - 1) : ms[j].volume < ms[i].volume
         IN  <<ms[k]>> \o SortByVolumeDesc(RemoveAt(ms, k))

\* discovered[:max_markets]
TakeFirst(seq, n) == SubSeq(seq, 1, IF Len(seq) < n THEN Len(seq) ELSE n)

\* SignalScanner._discover_markets.  The debug line of the loop formats
\* m.current_price with ':.1%', which raises for None; like any exception
\* of the method it is caught by the except clause, which returns []
DiscoverMarkets(exclude_ids, max_markets, min_volume, listed, now) ==
    LET all_markets == GetMarkets(listed, TRUE, now) IN
    IF all_markets.raised THEN <<>>
    ELSE LET discovered ==
                 SelectSeq(all_markets.value,
                           LAMBDA m : PassesDiscovery(m, exclude_ids, min_volume))
             log_raises ==
                 \E i \in 1..Len(discovered) : discovered[i].current_price = None
         IN  IF log_raises THEN <<>>
             ELSE TakeFirst(SortByVolumeDesc(discovered), max_markets)

\* a slug list made of the overrides followed by the watchlist
SlugsToFetch_Both(settings, override_slugs) ==
    override_slugs \o settings.watchlist

\* slugs_to_fetch = override_slugs or self.settings.watchlist
SlugsToFetch(settings, override_slugs) ==
    IF override_slugs # <<>> THEN override_slugs ELSE settings.watchlist

\* a discovery that runs whether or not there are overrides
DiscoveryRuns_IgnoresOverride(settings, override_slugs) ==
    settings.signal_discovery_enabled

\* if self.settings.signal_discovery_enabled and not override_slugs
DiscoveryRuns(settings, override_slugs) ==
    settings.signal_discovery_enabled /\ override_slugs = <<>>

\* the ids of the markets of a list
IdsOf(markets) == {markets[i].id : i \in 1..Len(markets)}

\* SignalScanner.get_markets_to_scan
GetMarketsToScan(settings, override_slugs, env, now) ==
    LET markets == FetchBySlugs(SlugsToFetch(settings, override_slugs),
                                env.by_slug, now)
    IN  IF DiscoveryRuns(settings, override_slugs)
        THEN markets \o DiscoverMarkets(IdsOf(markets),
                                        settings.signal_discovery_max_markets,
                                        settings.signal_discovery_min_volume,
                                        env.listed, now)
        ELSE markets

-----------------------------------------------------------------------------
(* Environment of the scanner: the markets of the market source *)

\* the markets the source knows, by id: three that pass every filter (two
\* of them at the ends of the price band, one at the minimum volume), one
\* below the minimum volume, one below and one above the price band, one
\* without a price, one that is closed
Catalogue ==
    <<ListedMarket(1, 300, OpenMarket(Some(50))),
      ListedMarket(2, 100, OpenMarket(Some(5))),
      ListedMarket(3, 300, OpenMarket(Some(95))),
      ListedMarket(4, 99, OpenMarket(Some(50))),
      ListedMarket(5, 400, OpenMarket(Some(4))),
      ListedMarket(6, 400, OpenMarket(Some(96))),
      ListedMarket(7, 500, OpenMarket(None)),
      ListedMarket(8, 250, ClosedMarket(Some(50)))>>

\* the slugs a caller may name: those of the catalogue and one more, which
\* the source does not know
Slugs == 1..(Len(Catalogue) + 1)

\* what the source answers for each slug when the fetch of `failing` raises
BySlug(failing) ==
    [s \in Slugs |->
        IF s = failing THEN Raises
        ELSE IF s > Len(Catalogue) THEN Returns(None)
        ELSE Returns(Some(Catalogue[s]))]

RECURSIVE Listings(_)
\* the lists of at most n distinct markets of the catalogue, in any order
Listings(n) ==
    IF n = 0 THEN {<<>>}
    ELSE LET shorter == Listings(n - 1)
         IN  shorter \cup
             UNION {{Append(l, Catalogue[i]) :
                        i \in {j \in 1..Len(Catalogue) : j \notin IdsOf(l)}} :
                    l \in {x \in shorter : Len(x) = n - 1}}

\* what get_markets answers
ListedAnswers == {Raises} \cup {Returns(l) : l \in Listings(MaxListed)}

\* the settings the scanner reads
Settings(watchlist, discovery_enabled, max_markets, skip_news, skip_social) ==
    [watchlist |-> watchlist,
     signal_discovery_enabled |-> discovery_enabled,
     signal_discovery_max_markets |-> max_markets,
     signal_discovery_min_volume |-> 100,
     skip_news_api |-> skip_news, skip_social_api |-> skip_social]

UniverseSettings ==
    {Settings(w, d, k, FALSE, TRUE) :
        w \in {<<>>, <<1>>, <<8, 2, 9>>}, d \in BOOLEAN, k \in {1, 2}}

UniverseOverrides == {<<>>, <<3>>, <<1, 8, 9>>}

-----------------------------------------------------------------------------
(* services/signals/scanner.py: get_markets_to_scan, by the call *)

GetMarketsToScanCall ==
    /\ scan.op = "none"
    /\ \E settings \in UniverseSettings, override \in UniverseOverrides,
          failing \in {0, 1}, listed \in ListedAnswers :
          LET env == [by_slug |-> BySlug(failing), listed |-> listed]
          IN  scan' = [NoScan EXCEPT
                          !.op = "get_markets_to_scan",
                          !.settings = settings, !.override = override,
                          !.env = env,
                          !.markets = GetMarketsToScan(settings, override,
                                                       env, clock)]
    /\ UNCHANGED <<store, clock, run, last, generator, limiter>>

InitUniverse ==
    /\ store = NewStore(0)
    /\ clock = 1
    /\ run = Idle
    /\ last = NoLast
    /\ scan = NoScan
    /\ generator = NoGenerator
    /\ limiter = NoLimiter

NextUniverse == GetMarketsToScanCall

SpecUniverse == InitUniverse /\ [][NextUniverse]_vars

-----------------------------------------------------------------------------
(* services/signals/scanner.py: run_scan *)

\* A context fetch ends in one of three ways: "raise", "none" (nothing
\* found, None returned) or "ok" (an object returned).  The object fetched
\* for a market:
ContextObject(kind, market) == [kind |-> kind, market_id |-> market.id]

\* SignalScanner._get_news_sentiment
GetNewsSentiment(settings, market, fetch) ==
    IF settings.skip_news_api THEN None
    ELSE IF fetch = "ok" THEN Some(ContextObject("news_sentiment", market))
    ELSE None

\* SignalScanner._get_social_data: one try around both fetches, so a raise
\* of either returns (None, None)
GetSocialData(settings, market, mentions_fetch, sentiment_fetch) ==
    IF settings.skip_social_api
    THEN [mentions |-> None, sentiment |-> None]
    ELSE IF mentions_fetch = "raise" \/ sentiment_fetch = "raise"
    THEN [mentions |-> None, sentiment |-> None]
    ELSE [mentions |-> IF mentions_fetch = "ok"
                       THEN Some(ContextObject("social_mentions", market))
                       ELSE None,
          sentiment |-> IF sentiment_fetch = "ok"
                        THEN Some(ContextObject("social_sentiment", market))
                        ELSE None]

\* the k signals the Generator returns for a market
SignalsOf(market, k) == [j \in 1..k |-> [market_id |-> market.id, n |-> j]]

\* the arguments of a call of generator.process_market
GeneratorCall(market, news_sentiment, social) ==
    [market_id |-> market.id, news_sentiment |-> news_sentiment,
     social_mentions |-> social.mentions,
     social_sentiment |-> social.sentiment, persist |-> FALSE]

\* SignalScanner.scan_market: the call made to the Generator and what comes
\* back, the signals or the Generator's exception
ScanMarket(settings, market, env) ==
    LET news_sentiment == GetNewsSentiment(settings, market, env.news)
        social == GetSocialData(settings, market, env.mentions, env.sentiment)
        generated == env.gen[market.id]
    IN  [call |-> GeneratorCall(market, news_sentiment, social),
         raised |-> generated.raised,
         signals |-> IF generated.raised THEN <<>>
                     ELSE SignalsOf(market, generated.value)]

\* an error string of ScanResult.errors
ScanError(kind, slug) == [kind |-> kind, slug |-> slug]

\* ScanResult()
NewScanResult ==
    [signals_generated |-> 0, markets_scanned |-> 0, signals |-> <<>>,
     degraded |-> [k \in {} |-> FALSE], errors |-> <<>>]

\* a loop body whose except clause records nothing
ScanVisit_Silent(acc, out, market) ==
    IF out.raised
    THEN [acc EXCEPT !.calls = Append(@, out.call)]
    ELSE [acc EXCEPT
             !.calls = Append(@, out.call),
             !.result.signals = @ \o out.signals,
             !.result.markets_scanned = @ + 1]

\* a loop body that counts the market before it scans it
ScanVisit_CountsFirst(acc, out, market) ==
    IF out.raised
    THEN [acc EXCEPT
             !.calls = Append(@, out.call),
             !.result.markets_scanned = @ + 1,
             !.result.errors = Append(@, ScanError("scan_market", market.slug))]
    ELSE [acc EXCEPT
             !.calls = Append(@, out.call),
             !.result.signals = @ \o out.signals,
             !.result.markets_scanned = @ + 1]

\* run_scan, the loop body: the signals of the market are added and the
\* market counted, or the exception is recorded as one error string
ScanVisit(acc, out, market) ==
    IF out.raised
    THEN [acc EXCEPT
             !.calls = Append(@, out.call),
             !.result.errors = Append(@, ScanError("scan_market", market.slug))]
    ELSE [acc EXCEPT
             !.calls = Append(@, out.call),
             !.result.signals = @ \o out.signals,
             !.result.markets_scanned = @ + 1]

RECURSIVE ScanLoop(_, _, _, _)
\* run_scan, the loop over the markets
ScanLoop(acc, settings, markets, env) ==
    IF markets = <<>> THEN acc
    ELSE ScanLoop(ScanVisit(acc, ScanMarket(settings, Head(markets), env),
                            Head(markets)),
                  settings, Tail(markets), env)

\* a write to the store
StoreWrite(op, markets, signal) ==
    [op |-> op, markets |-> markets, signal |-> signal]

RECURSIVE CreateSignals(_, _, _)
\* _persist_signals, the loop of create_signal: the k-th call from here is
\* the one that raises (0: none does)
CreateSignals(signals, k, done) ==
    IF signals = <<>> \/ k = 1 THEN done
    ELSE CreateSignals(Tail(signals), IF k = 0 THEN 0 ELSE k - 1,
                       Append(done, StoreWrite("create_signal", {},
                                               Some(Head(signals)))))

\* a _persist_signals that creates the signals and then upserts the markets
PersistSignals_SignalsFirst(signals, markets, fault) ==
    IF fault.op = "client" THEN <<>>
    ELSE LET created == CreateSignals(signals,
                                      IF fault.op = "create" THEN fault.at ELSE 0,
                                      <<>>)
         IN  IF Len(created) < Len(signals) \/ fault.op = "upsert"
             THEN created
             ELSE Append(created,
                         StoreWrite("upsert_markets", IdsOf(markets), None))

\* SignalScanner._persist_signals: the writes that reach the store.  fault:
\* what raises, get_supabase_client ("client"), upsert_markets ("upsert") or
\* the at-th create_signal ("create"); the except clause logs it
PersistSignals(signals, markets, fault) ==
    IF fault.op = "client" \/ fault.op = "upsert" THEN <<>>
    ELSE CreateSignals(signals,
                       IF fault.op = "create" THEN fault.at ELSE 0,
                       <<StoreWrite("upsert_markets", IdsOf(markets), None)>>)

\* RateLimitedClient.is_available
IsAvailable(rate_limited_until, now) ==
    IF rate_limited_until = None THEN TRUE
    ELSE IF now >= Val(rate_limited_until) THEN TRUE
    ELSE FALSE

\* run_scan, the degradation status
Degraded(settings, env, now) ==
    [news_api |-> settings.skip_news_api
                     \/ ~IsAvailable(env.rate_limited_until.newsapi, now),
     social_api |-> settings.skip_social_api
                     \/ ~IsAvailable(env.rate_limited_until.twitter, now),
     polymarket_api |-> ~IsAvailable(env.rate_limited_until.polymarket, now)]

\* SignalScanner.run_scan: the ScanResult returned, the calls made to the
\* Generator and the writes made to the store
RunScan(settings, override_markets, persist, env, now) ==
    LET markets == GetMarketsToScan(settings, override_markets, env, now) IN
    IF markets = <<>>
    THEN [markets |-> markets, calls |-> <<>>, writes |-> <<>>,
          result |-> [NewScanResult EXCEPT
                         !.errors = <<ScanError("no_markets", 0)>>]]
    ELSE LET scanned == ScanLoop([calls |-> <<>>, result |-> NewScanResult],
                                 settings, markets, env)
             signals == scanned.result.signals
         IN  [markets |-> markets,
              calls |-> scanned.calls,
              writes |-> IF persist /\ signals # <<>>
                         THEN PersistSignals(signals, markets, env.db_fault)
                         ELSE <<>>,
              result |-> [scanned.result EXCEPT
                             !.signals_generated = Len(signals),
                             !.degraded = Degraded(settings, env, now)]]

-----------------------------------------------------------------------------
(* Environment of a scan: the context sources, the Generator, the store,  *)
(* the rate limiters                                                       *)

FetchOutcomes == {"raise", "none", "ok"}

\* what generator.process_market does for a market: it raises, or returns
\* a number of signals
GeneratorRaises == [raised |-> TRUE, value |-> 0]
Generated(k) == [raised |-> FALSE, value |-> k]
GeneratorOutcomes == {GeneratorRaises, Generated(0), Generated(1)}

\* what raises in the store during _persist_signals
DbFault(op, at) == [op |-> op, at |-> at]
DbFaults ==
    {DbFault("none", 0), DbFault("client", 0), DbFault("upsert", 0),
     DbFault("create", 1), DbFault("create", 2)}

\* rate_limited_until of the three rate limiters at the end of the scan:
\* unset, or a time after now; and all three set to a time that has passed
LimiterStates(now) ==
    [newsapi : {None, Some(now + 1)}, twitter : {None, Some(now + 1)},
     polymarket : {None, Some(now + 1)}]
    \cup {[newsapi |-> Some(now), twitter |-> Some(now),
           polymarket |-> Some(now)]}

\* the markets a scan is asked for: the first ScanSize of the catalogue, or
\* a slug the source does not know
ScanOverrides == {[i \in 1..ScanSize |-> i], <<Len(Catalogue) + 1>>}

-----------------------------------------------------------------------------
(* services/signals/scanner.py: run_scan, by the call *)

RunScanCall ==
    /\ scan.op = "none"
    /\ \E skip_news \in BOOLEAN, skip_social \in BOOLEAN,
          override \in ScanOverrides, persist \in BOOLEAN :
       \E news \in IF skip_news THEN {"ok"} ELSE FetchOutcomes,
          mentions \in IF skip_social THEN {"ok"} ELSE FetchOutcomes,
          sentiment \in IF skip_social THEN {"ok"} ELSE FetchOutcomes,
          gen \in [1..ScanSize -> GeneratorOutcomes],
          db_fault \in IF persist THEN DbFaults ELSE {DbFault("none", 0)},
          rate_limited_until \in LimiterStates(clock) :
          LET settings == Settings(<<>>, FALSE, 1, skip_news, skip_social)
              env == [by_slug |-> BySlug(0), listed |-> Returns(<<>>),
                      news |-> news, mentions |-> mentions,
                      sentiment |-> sentiment, gen |-> gen,
                      db_fault |-> db_fault,
                      rate_limited_until |-> rate_limited_until]
              out == RunScan(settings, override, persist, env, clock)
          IN  scan' = [NoScan EXCEPT
                          !.op = "run_scan",
                          !.settings = settings, !.override = override,
                          !.persist = persist, !.env = env,
                          !.markets = out.markets, !.result = out.result,
                          !.calls = out.calls, !.writes = out.writes]
    /\ UNCHANGED <<store, clock, run, last, generator, limiter>>

InitScan ==
    /\ store = NewStore(0)
    /\ clock = 1
    /\ run = Idle
    /\ last = NoLast
    /\ scan = NoScan
    /\ generator = NoGenerator
    /\ limiter = NoLimiter

NextScan == RunScanCall

SpecScan == InitScan /\ [][NextScan]_vars

-----------------------------------------------------------------------------
(* models/market.py: the market as the Generator reads it *)

MarketTier == {"THIN", "LOW", "MEDIUM", "HIGH"}

\* the volume thresholds of compute_tier; volumes are in thousands of
\* dollars
TierThinBelow == 10
TierLowBelow == 27
TierMediumBelow == 95

\* Market.compute_tier
ComputeTier(volume) ==
    IF volume < TierThinBelow THEN "THIN"
    ELSE IF volume < TierLowBelow THEN "LOW"
    ELSE IF volume < TierMediumBelow THEN "MEDIUM"
    ELSE "HIGH"

\* Market, the fields the Generator reads: those of a listed market, the
\* 24h volume, the liquidity and the stored tier (None when it was never
\* computed)
MarketSnapshot(id, market, volume, volume_24h, liquidity, tier) ==
    [id |-> id, slug |-> id,
     closed |-> market.closed, archived |-> market.archived,
     accepting_orders |-> market.accepting_orders,
     end_date |-> market.end_date, current_price |-> market.current_price,
     volume |-> volume, volume_24h |-> volume_24h,
     liquidity |-> liquidity, tier |-> tier]

\* a tier that, when none is stored, is taken for the highest
TierOf_MissingIsTop(market) ==
    IF market.tier # None THEN Val(market.tier)
    ELSE "HIGH"

\* market.tier or market.compute_tier()
TierOf(market) ==
    IF market.tier # None THEN Val(market.tier)
    ELSE ComputeTier(market.volume)

-----------------------------------------------------------------------------
(* services/signals/generator.py: the quality filter *)

MinDaysToExpiry == 7
DefaultMinTierValue == 1
DecayDays == 14
LowTierPercent == 85
MediumTierPercent == 95
FullPercent == 100

\* the settings the quality filter reads
QualitySettings(min_days_to_expiry, min_market_tier, min_price, max_price) ==
    [min_days_to_expiry |-> min_days_to_expiry,
     min_market_tier |-> min_market_tier,
     min_price_for_signals |-> min_price,
     max_price_for_signals |-> max_price]

\* (end_date - now).days: whole days, rounded down
DaysToExpiry(end_date, now) == (end_date - now) \div HoursPerDay

\* tier_order
TierOrder(tier) ==
    CASE tier = "THIN" -> 0
      [] tier = "LOW" -> 1
      [] tier = "MEDIUM" -> 2
      [] tier = "HIGH" -> 3

\* tier_order.get(settings.min_market_tier.upper(), 1)
MinTierValue(min_market_tier) ==
    IF min_market_tier \in MarketTier THEN TierOrder(min_market_tier)
    ELSE DefaultMinTierValue

\* the answer of should_skip_market; the reason is the text without the
\* numbers it quotes
Skip(reason) == [skip |-> TRUE, reason |-> reason]
NoSkip == [skip |-> FALSE, reason |-> ""]

\* should_skip_market with the tier test ahead of the lifecycle flags
ShouldSkipMarket_TierFirst(market, settings, now) ==
    IF TierOrder(TierOf(market)) < MinTierValue(settings.min_market_tier)
    THEN Skip("Market tier below minimum")
    ELSE IF market.closed THEN Skip("Market is closed")
    ELSE IF market.archived THEN Skip("Market is archived")
    ELSE IF ~market.accepting_orders
    THEN Skip("Market is not accepting orders")
    ELSE IF market.end_date # None /\ Val(market.end_date) < now
    THEN Skip("Market has already expired")
    ELSE IF market.end_date # None
            /\ DaysToExpiry(Val(market.end_date), now)
                   < settings.min_days_to_expiry
    THEN Skip("Market expires in days")
    ELSE IF market.current_price # None
            /\ Val(market.current_price) < settings.min_price_for_signals
    THEN Skip("Price below minimum")
    ELSE IF market.current_price # None
            /\ Val(market.current_price) > settings.max_price_for_signals
    THEN Skip("Price above maximum")
    ELSE NoSkip

\* SignalGenerator.should_skip_market
ShouldSkipMarket(market, settings, now) ==
    IF market.closed THEN Skip("Market is closed")
    ELSE IF market.archived THEN Skip("Market is archived")
    ELSE IF ~market.accepting_orders
    THEN Skip("Market is not accepting orders")
    ELSE IF market.end_date # None /\ Val(market.end_date) < now
    THEN Skip("Market has already expired")
    ELSE IF market.end_date # None
            /\ DaysToExpiry(Val(market.end_date), now)
                   < settings.min_days_to_expiry
    THEN Skip("Market expires in days")
    ELSE IF TierOrder(TierOf(market)) < MinTierValue(settings.min_market_tier)
    THEN Skip("Market tier below minimum")
    ELSE IF market.current_price # None
            /\ Val(market.current_price) < settings.min_price_for_signals
    THEN Skip("Price below minimum")
    ELSE IF market.current_price # None
            /\ Val(market.current_price) > settings.max_price_for_signals
    THEN Skip("Price above maximum")
    ELSE NoSkip

-----------------------------------------------------------------------------
(* services/signals/generator.py: the quality adjustment *)

\* A confidence is the exact rational the arithmetic denotes, a reduced
\* fraction like a gain.

\* a >= b, and a <= b, for fractions with positive denominators
FracGeq(a, b) == a[1] * b[2] >= b[1] * a[2]
FracLeq(a, b) == FracGeq(b, a)

\* a * (n / d), for d > 0
FracTimes(a, n, d) == Frac(a[1] * n, a[2] * d)

\* max(0.0, min(1.0, confidence))
Clamp01(a) ==
    IF a[1] < 0 THEN Frac(0, 1)
    ELSE IF a[1] > a[2] THEN Frac(1, 1)
    ELSE a

\* the tier adjustment: LOW 0.85, MEDIUM 0.95, no penalty otherwise
TierAdjusted(confidence, tier) ==
    IF tier = "LOW" THEN FracTimes(confidence, LowTierPercent, FullPercent)
    ELSE IF tier = "MEDIUM"
    THEN FracTimes(confidence, MediumTierPercent, FullPercent)
    ELSE confidence

\* a decay with no floor: days_to_expiry / 14
DecayFactor_NoFloor(days_to_expiry) == Frac(days_to_expiry, DecayDays)

\* max(0.5, days_to_expiry / 14)
DecayFactor(days_to_expiry) ==
    IF 2 * days_to_expiry < DecayDays THEN Frac(1, 2)
    ELSE Frac(days_to_expiry, DecayDays)

\* the expiration adjustment
ExpiryAdjusted(confidence, market, now) ==
    IF market.end_date = None THEN confidence
    ELSE LET days_to_expiry == DaysToExpiry(Val(market.end_date), now)
             factor == DecayFactor(days_to_expiry)
         IN  IF days_to_expiry < DecayDays
             THEN FracTimes(confidence, factor[1], factor[2])
             ELSE confidence

\* SignalGenerator.adjust_confidence_for_quality
AdjustConfidenceForQuality(confidence, market, now) ==
    Clamp01(ExpiryAdjusted(TierAdjusted(confidence, TierOf(market)),
                           market, now))

-----------------------------------------------------------------------------
(* services/signals/rules.py *)

\* Sentiment scores are in hundredths (a score in [-1,1] is -100..100).
\* The rules' arithmetic is exact; the inputs of the specifications are
\* chosen off the ties where float rounding would decide a comparison.

SentimentDivergenceThreshold == 20
MinSentimentStrength == 30
MinArticleCount == 5
VolumeSurgeMultiplier == 3
SocialSpikeMultiplier == 5
PriceMomentumThreshold == 10

SignalType ==
    {"SENTIMENT_DIVERGENCE", "VOLUME_SURGE", "SOCIAL_SPIKE", "PRICE_MOMENTUM"}

\* the context objects of the news and the social sources
NewsSentiment(sentiment_score, article_count) ==
    [sentiment_score |-> sentiment_score, article_count |-> article_count]
SocialMention(mention_count_1h, mention_count_24h) ==
    [mention_count_1h |-> mention_count_1h,
     mention_count_24h |-> mention_count_24h]
SocialSentiment(sentiment_score) == [sentiment_score |-> sentiment_score]

\* SignalCandidate
SignalCandidate(signal_type, direction, confidence, news_sentiment_score, social_mention_count_24h, social_sentiment_score) ==
    [signal_type |-> signal_type, direction |-> direction,
     confidence |-> confidence,
     news_sentiment_score |-> news_sentiment_score,
     social_mention_count_24h |-> social_mention_count_24h,
     social_sentiment_score |-> social_sentiment_score]

\* a + b
FracPlus(a, b) == Frac(a[1] * b[2] + b[1] * a[2], a[2] * b[2])

\* a min(1.0, a) that does not cap
FracMin1_Uncapped(a) == a

\* min(1.0, a) and max(lo, min(hi, a))
FracMin1(a) == IF a[1] > a[2] THEN Frac(1, 1) ELSE a
FracClamp(a, lo, hi) ==
    IF FracGeq(lo, a) THEN lo ELSE IF FracGeq(a, hi) THEN hi ELSE a

\* round(a, 2) for a >= 0: the nearest hundredth
Round2(a) == Frac((200 * a[1] + a[2]) \div (2 * a[2]), 100)

\* the answer of a rule: a candidate or None, or an exception
NoCandidate == Returns(None)
Fires(candidate) == Returns(Some(candidate))

\* SentimentDivergenceRule.evaluate, its confidence
SentimentDivergenceConfidence(sentiment, divergence, article_count) ==
    LET sentiment_factor == FracMin1(Frac(Abs(sentiment), 60))
        divergence_factor == FracMin1(Frac(divergence, 300))
        article_factor == FracMin1(Frac(article_count, 15))
        confidence ==
            FracPlus(FracPlus(FracTimes(sentiment_factor, 4, 10),
                              FracTimes(divergence_factor, 4, 10)),
                     FracTimes(article_factor, 2, 10))
    IN  Round2(FracClamp(confidence, Frac(3, 10), Frac(9, 10)))

\* a rule whose dead zone is empty
InDeadZone_Never(sentiment) == FALSE

\* abs(sentiment) < self.min_sentiment_strength: the score is neutral
InDeadZone(sentiment) == Abs(sentiment) < MinSentimentStrength

\* SentimentDivergenceRule.evaluate; expectation and divergence are in
\* thousandths
SentimentDivergenceRule(market, news_sentiment) ==
    IF news_sentiment = None \/ market.current_price = None THEN NoCandidate
    ELSE
    LET sentiment == Val(news_sentiment).sentiment_score
        article_count == Val(news_sentiment).article_count
        price == Val(market.current_price)
        \* the else of `if sentiment > self.min_sentiment_strength` is
        \* every score that is not above the strength
        branch ==
            IF sentiment > MinSentimentStrength THEN "bullish" ELSE "bearish"
        price_expectation == 500 + 3 * sentiment
        divergence ==
            IF branch = "bullish" THEN price_expectation - 10 * price
            ELSE 10 * price - price_expectation
    IN  IF InDeadZone(sentiment) THEN NoCandidate
        ELSE IF article_count < MinArticleCount THEN NoCandidate
        ELSE IF price < 5 \/ price > 95 THEN NoCandidate
        ELSE IF branch = "bullish" /\ price > 70 THEN NoCandidate
        ELSE IF branch = "bearish" /\ price < 30 THEN NoCandidate
        ELSE IF divergence < 10 * SentimentDivergenceThreshold
        THEN NoCandidate
        ELSE Fires(SignalCandidate(
                 "SENTIMENT_DIVERGENCE",
                 IF branch = "bullish" THEN "BUY" ELSE "SELL",
                 SentimentDivergenceConfidence(sentiment, divergence,
                                               article_count),
                 Some(sentiment), None, None))

\* VolumeSurgeRule.evaluate; the division by a previous price of zero
\* raises
VolumeSurgeRule(market, previous_price, previous_volume_24h) ==
    IF previous_price = None \/ previous_volume_24h = None THEN NoCandidate
    ELSE IF market.current_price = None \/ Val(previous_volume_24h) = 0
    THEN NoCandidate
    ELSE
    LET price == Val(market.current_price)
        previous == Val(previous_price)
        volume == market.volume_24h
        previous_volume == Val(previous_volume_24h)
    IN  IF volume < VolumeSurgeMultiplier * previous_volume THEN NoCandidate
        ELSE IF previous = 0 THEN Raises
        ELSE IF 100 * Abs(price - previous) < 5 * previous THEN NoCandidate
        ELSE Fires(SignalCandidate(
                 "VOLUME_SURGE",
                 IF price > previous THEN "BUY" ELSE "SELL",
                 Round2(FracMin1(
                     Frac(volume
                            - (VolumeSurgeMultiplier - 1) * previous_volume,
                          2 * previous_volume))),
                 None, None, None))

\* SocialSpikeRule.evaluate
SocialSpikeRule(social_mentions, social_sentiment) ==
    IF social_mentions = None \/ social_sentiment = None THEN NoCandidate
    ELSE
    LET count_1h == Val(social_mentions).mention_count_1h
        count_24h == Val(social_mentions).mention_count_24h
        sentiment == Val(social_sentiment).sentiment_score
        \* mention_count_1h / (mention_count_24h / 24), or by 1 when there
        \* were none in 24h
        hourly_ratio ==
            IF count_24h # 0 THEN Frac(24 * count_1h, count_24h)
            ELSE Frac(count_1h, 1)
        spike_confidence ==
            FracMin1(FracPlus(
                Frac(hourly_ratio[1] - SocialSpikeMultiplier * hourly_ratio[2],
                     SocialSpikeMultiplier * hourly_ratio[2]),
                Frac(1, 2)))
    IN  IF ~FracGeq(hourly_ratio, Frac(SocialSpikeMultiplier, 1))
        THEN NoCandidate
        ELSE IF Abs(sentiment) < 30 THEN NoCandidate
        ELSE Fires(SignalCandidate(
                 "SOCIAL_SPIKE",
                 IF sentiment > 0 THEN "BUY" ELSE "SELL",
                 Round2(FracTimes(
                     FracPlus(spike_confidence, Frac(Abs(sentiment), 100)),
                     1, 2)),
                 None, Some(count_24h), Some(sentiment)))

\* PriceMomentumRule.evaluate; the division by a previous price of zero
\* raises
PriceMomentumRule(market, previous_price, previous_volume_24h) ==
    IF previous_price = None \/ market.current_price = None THEN NoCandidate
    ELSE IF Val(previous_price) = 0 THEN Raises
    ELSE
    LET price == Val(market.current_price)
        previous == Val(previous_price)
        \* abs(price_change)
        change == Frac(Abs(price - previous), previous)
        volume_confirmed ==
            /\ previous_volume_24h # None
            /\ Val(previous_volume_24h) > 0
            /\ 2 * market.volume_24h >= 3 * Val(previous_volume_24h)
        base_confidence ==
            FracMin1(FracTimes(change, 50, PriceMomentumThreshold))
    IN  IF ~FracGeq(change, Frac(PriceMomentumThreshold, 100))
        THEN NoCandidate
        ELSE IF ~volume_confirmed
                /\ ~FracGeq(change, Frac(3 * PriceMomentumThreshold, 200))
        THEN NoCandidate
        ELSE Fires(SignalCandidate(
                 "PRICE_MOMENTUM",
                 IF price > previous THEN "BUY" ELSE "SELL",
                 Round2(FracMin1(
                     IF volume_confirmed
                     THEN FracPlus(base_confidence, Frac(3, 10))
                     ELSE base_confidence)),
                 None, None, None))

\* the rules of a Generator, in the order of its list
Rules ==
    <<"SentimentDivergenceRule", "VolumeSurgeRule", "SocialSpikeRule",
      "PriceMomentumRule">>

\* rule.evaluate(market, news_sentiment, social_mentions, social_sentiment,
\* previous_price, previous_volume_24h)
RuleEvaluate(rule, market, news_sentiment, social_mentions, social_sentiment, previous_price, previous_volume_24h) ==
    CASE rule = "SentimentDivergenceRule" ->
             SentimentDivergenceRule(market, news_sentiment)
      [] rule = "VolumeSurgeRule" ->
             VolumeSurgeRule(market, previous_price, previous_volume_24h)
      [] rule = "SocialSpikeRule" ->
             SocialSpikeRule(social_mentions, social_sentiment)
      [] rule = "PriceMomentumRule" ->
             PriceMomentumRule(market, previous_price, previous_volume_24h)

-----------------------------------------------------------------------------
(* services/signals/generator.py: evaluate_market, generate_signal,       *)
(* process_market                                                          *)

\* SignalGenerator.__init__, min_confidence
MinConfidence == Frac(1, 2)

\* the settings a Generator loads
DefaultQualitySettings ==
    QualitySettings(MinDaysToExpiry, "LOW", MinPriceForSignals,
                    MaxPriceForSignals)

\* get_previous_state: self._previous_states.get(market_id)
GetPreviousState(previous_states, market_id) ==
    IF market_id \in DOMAIN previous_states
    THEN Some(previous_states[market_id])
    ELSE None

\* set_previous_state; the timestamp is never read
SetPreviousState(previous_states, market_id, price, volume_24h) ==
    [id \in DOMAIN previous_states \cup {market_id} |->
        IF id = market_id THEN [price |-> price, volume_24h |-> volume_24h]
        ELSE previous_states[id]]

\* evaluate_market, the update of the stored state for the next evaluation
UpdatedStates(previous_states, market) ==
    IF market.current_price # None
    THEN SetPreviousState(previous_states, market.id,
                          Val(market.current_price), market.volume_24h)
    ELSE previous_states

\* an evaluate_market that stores the market's state before it runs the
\* rules
StatesRead_UpdatedFirst(previous_states, market) ==
    UpdatedStates(previous_states, market)

\* evaluate_market reads the previous state once, ahead of the rules
StatesRead(previous_states, market) == previous_states

RECURSIVE KeptCandidates(_, _)
\* evaluate_market, the candidates kept: those of the rules that returned
\* one with confidence >= min_confidence, in the order of the rules
KeptCandidates(answers, min_confidence) ==
    IF answers = <<>> THEN <<>>
    ELSE LET answer == Head(answers)
             rest == KeptCandidates(Tail(answers), min_confidence)
         IN  IF /\ ~answer.raised
                /\ answer.value # None
                /\ FracGeq(Val(answer.value).confidence, min_confidence)
             THEN <<Val(answer.value)>> \o rest
             ELSE rest

\* a loop over the rules that the first exception of a rule ends
RuleAnswers_StopAtException(rules, market, news_sentiment, social_mentions, social_sentiment, previous_price, previous_volume_24h) ==
    LET answers ==
            [i \in 1..Len(rules) |->
                RuleEvaluate(rules[i], market, news_sentiment,
                             social_mentions, social_sentiment,
                             previous_price, previous_volume_24h)]
        raising == {i \in 1..Len(rules) : answers[i].raised}
        stop == IF raising = {} THEN Len(rules)
                ELSE CHOOSE i \in raising : \A j \in raising : i <= j
    IN  SubSeq(answers, 1, stop)

\* evaluate_market, the loop over the rules: every rule is run, in the
\* order of the list; an exception of a rule is logged
RuleAnswers(rules, market, news_sentiment, social_mentions, social_sentiment, previous_price, previous_volume_24h) ==
    [i \in 1..Len(rules) |->
        RuleEvaluate(rules[i], market, news_sentiment, social_mentions,
                     social_sentiment, previous_price, previous_volume_24h)]

\* SignalGenerator.evaluate_market: the candidates, the cache afterwards,
\* and what every rule was given and answered
EvaluateMarket(rules, previous_states, market, news_sentiment, social_mentions, social_sentiment, min_confidence) ==
    LET prev_state ==
            GetPreviousState(StatesRead(previous_states, market), market.id)
        previous_price ==
            IF prev_state # None THEN Some(Val(prev_state).price) ELSE None
        previous_volume_24h ==
            IF prev_state # None THEN Some(Val(prev_state).volume_24h)
            ELSE None
        answers ==
            RuleAnswers(rules, market, news_sentiment, social_mentions,
                        social_sentiment, previous_price,
                        previous_volume_24h)
    IN  [candidates |-> KeptCandidates(answers, min_confidence),
         previous_states |-> UpdatedStates(previous_states, market),
         seen |-> [i \in 1..Len(answers) |->
                      [rule |-> rules[i],
                       previous_price |-> previous_price,
                       previous_volume_24h |-> previous_volume_24h]],
         answers |-> answers]

\* market.current_price or 0.5
EntryPriceOf(market) ==
    IF market.current_price = None THEN 50
    ELSE IF Val(market.current_price) = 0 THEN 50
    ELSE Val(market.current_price)

\* SignalGenerator.generate_signal; the fresh uuid is the position of the
\* signal in the list of its call
GenerateSignal(market, candidate, news_sentiment, social_mentions, id, now) ==
    [market_id |-> market.id, market_slug |-> market.slug,
     market_end_date |-> market.end_date,
     signal_type |-> candidate.signal_type,
     confidence |-> candidate.confidence,
     entry_volume_24h |-> market.volume_24h,
     entry_volume_total |-> market.volume,
     entry_liquidity |-> market.liquidity,
     market_tier |-> TierOf(market),
     news_sentiment_score |->
         IF news_sentiment # None /\ candidate.news_sentiment_score = None
         THEN Some(Val(news_sentiment).sentiment_score)
         ELSE candidate.news_sentiment_score,
     social_mention_count_24h |->
         IF social_mentions # None
            /\ candidate.social_mention_count_24h = None
         THEN Some(Val(social_mentions).mention_count_24h)
         ELSE candidate.social_mention_count_24h,
     social_sentiment_score |-> candidate.social_sentiment_score]
    @@ Signal(id, now, candidate.direction, EntryPriceOf(market))

RECURSIVE QualifiedCandidates_KeepsAll(_, _, _, _)
\* a quality adjustment that drops no candidate
QualifiedCandidates_KeepsAll(candidates, market, min_confidence, now) ==
    IF candidates = <<>> THEN <<>>
    ELSE LET candidate == Head(candidates)
             adjusted_confidence ==
                 AdjustConfidenceForQuality(candidate.confidence, market, now)
         IN  <<[candidate EXCEPT !.confidence = adjusted_confidence]>>
             \o QualifiedCandidates_KeepsAll(Tail(candidates), market,
                                             min_confidence, now)

RECURSIVE QualifiedCandidates(_, _, _, _)
\* process_market, the candidates kept after the quality adjustment, their
\* confidence replaced by the adjusted one
QualifiedCandidates(candidates, market, min_confidence, now) ==
    IF candidates = <<>> THEN <<>>
    ELSE LET candidate == Head(candidates)
             adjusted_confidence ==
                 AdjustConfidenceForQuality(candidate.confidence, market, now)
             rest == QualifiedCandidates(Tail(candidates), market,
                                         min_confidence, now)
         IN  IF FracGeq(adjusted_confidence, min_confidence)
             THEN <<[candidate EXCEPT !.confidence = adjusted_confidence]>>
                  \o rest
             ELSE rest

\* a call of db_client.create_signal
CreateCall(signal, raised) == [signal |-> signal, raised |-> raised]

\* a process_market without the try around create_signal: the first create
\* that raises ends the call
PersistOutcome_Unguarded(signals, faults) ==
    LET failing == {k \in 1..Len(signals) : k \in faults}
        first == IF failing = {} THEN Len(signals)
                 ELSE CHOOSE k \in failing : \A j \in failing : k <= j
    IN  [writes |-> [k \in 1..first |-> CreateCall(signals[k], k \in faults)],
         raised |-> failing # {}]

\* process_market, the persistence of the signals: every signal is handed
\* to create_signal, an exception of which is logged
PersistOutcome(signals, faults) ==
    [writes |-> [k \in 1..Len(signals) |->
                    CreateCall(signals[k], k \in faults)],
     raised |-> FALSE]

\* what process_market answers: whether the quality filter skipped the
\* market and why, the signals returned, the calls of create_signal,
\* whether the call raised, and of its evaluate_market what the rules were
\* given and answered, the candidates kept and the cache afterwards
ProcessAnswer(skip, signals, writes, raised, evaluation) ==
    [skipped |-> skip.skip, reason |-> skip.reason, signals |-> signals,
     writes |-> writes, raised |-> raised,
     seen |-> evaluation.seen, answers |-> evaluation.answers,
     candidates |-> evaluation.candidates,
     previous_states |-> evaluation.previous_states]

\* a process_market that remembers the state of a market it skips
SkippedStates_Remembered(previous_states, market) ==
    UpdatedStates(previous_states, market)

\* process_market, the cache after a market the quality filter skips: the
\* call returns before evaluate_market
SkippedStates(previous_states, market) == previous_states

\* SignalGenerator.process_market; faults are the positions of the signals
\* whose create_signal raises
ProcessMarket(previous_states, market, news_sentiment, social_mentions, social_sentiment, persist, has_db_client, faults, settings, min_confidence, now) ==
    LET skip == ShouldSkipMarket(market, settings, now)
        not_evaluated ==
            [seen |-> <<>>, answers |-> <<>>, candidates |-> <<>>,
             previous_states |-> SkippedStates(previous_states, market)]
        evaluation ==
            EvaluateMarket(Rules, previous_states, market, news_sentiment,
                           social_mentions, social_sentiment, min_confidence)
        qualified ==
            QualifiedCandidates(evaluation.candidates, market,
                                min_confidence, now)
        signals ==
            [k \in 1..Len(qualified) |->
                GenerateSignal(market, qualified[k], news_sentiment,
                               social_mentions, k, now)]
        outcome ==
            IF persist /\ has_db_client THEN PersistOutcome(signals, faults)
            ELSE [writes |-> <<>>, raised |-> FALSE]
    IN  IF skip.skip
        THEN ProcessAnswer(skip, <<>>, <<>>, FALSE, not_evaluated)
        ELSE IF outcome.raised
        THEN ProcessAnswer(skip, <<>>, outcome.writes, TRUE, evaluation)
        ELSE ProcessAnswer(skip, signals, outcome.writes, FALSE, evaluation)

-----------------------------------------------------------------------------
(* Environment of the quality filter and of the quality adjustment *)

\* end dates around `now`: none, an hour ago, now, and from one day ago to
\* fifteen days ahead, to the hour and an hour short of it
EndDates(now) ==
    {None, Some(now - 1)}
    \cup {Some(now + HoursPerDay * d) : d \in -1..15}
    \cup {Some(now + HoursPerDay * d - 1) : d \in {7, 14}}

QualityVolumes == {5, 20, 50, 100}
QualityTiers == {None} \cup {Some(t) : t \in MarketTier}
QualityPrices == {None, Some(0), Some(4), Some(5), Some(50), Some(95),
                  Some(96)}

\* the markets should_skip_market is called with
QualityMarkets(now) ==
    {MarketSnapshot(1, Market(closed, archived, accepting_orders, end_date,
                              price), volume, 20, 5, tier) :
        closed \in BOOLEAN, archived \in BOOLEAN,
        accepting_orders \in BOOLEAN,
        end_date \in {None, Some(now - 1), Some(now),
                      Some(now + HoursPerDay * MinDaysToExpiry - 1),
                      Some(now + HoursPerDay * MinDaysToExpiry)},
        price \in QualityPrices, volume \in {5, 20}, tier \in QualityTiers}

\* the settings of the quality filter: the defaults, with every value of
\* min_market_tier and one that names no tier
QualitySettingsSet ==
    {QualitySettings(MinDaysToExpiry, min_market_tier, MinPriceForSignals,
                     MaxPriceForSignals) :
        min_market_tier \in MarketTier \cup {"NONE"}}

\* the markets adjust_confidence_for_quality is called with
AdjustMarkets(now) ==
    {MarketSnapshot(1, Market(FALSE, FALSE, TRUE, end_date, Some(50)),
                    volume, 20, 5, tier) :
        end_date \in EndDates(now), volume \in QualityVolumes,
        tier \in QualityTiers}

\* the raw confidences, in hundredths
RawConfidences == {Frac(h, 100) : h \in {0, 30, 50, 75, 100}}

\* should_skip_market, by the call
ShouldSkipMarketCall ==
    /\ generator.call.op = "none"
    /\ \E market \in QualityMarkets(clock), settings \in QualitySettingsSet :
          generator' =
              [generator EXCEPT !.call =
                  [op |-> "should_skip_market", market |-> market,
                   settings |-> settings,
                   result |-> ShouldSkipMarket(market, settings, clock)]]
    /\ UNCHANGED <<store, clock, run, last, scan, limiter>>

\* adjust_confidence_for_quality, by the call
AdjustConfidenceCall ==
    /\ generator.call.op = "none"
    /\ \E market \in AdjustMarkets(clock), confidence \in RawConfidences :
          generator' =
              [generator EXCEPT !.call =
                  [op |-> "adjust_confidence_for_quality",
                   market |-> market, confidence |-> confidence,
                   result |-> AdjustConfidenceForQuality(confidence, market,
                                                         clock)]]
    /\ UNCHANGED <<store, clock, run, last, scan, limiter>>

InitQuality ==
    /\ store = NewStore(0)
    /\ clock = HoursPerDay
    /\ run = Idle
    /\ last = NoLast
    /\ scan = NoScan
    /\ generator = NoGenerator
    /\ limiter = NoLimiter

NextQuality ==
    \/ ShouldSkipMarketCall
    \/ AdjustConfidenceCall

SpecQuality == InitQuality /\ [][NextQuality]_vars

-----------------------------------------------------------------------------
(* Environment of the rules *)

\* sentiment scores, in hundredths, around the strength of 0.30
SentimentScores ==
    {-100, -60, -31, -30, -29, -10, 0, 10, 29, 30, 31, 60, 100}

\* prices every five cents, and none
RulePrices == {None} \cup {Some(5 * p) : p \in 0..20}

ArticleCounts == {0, 5, 15}

\* SentimentDivergenceRule.evaluate, by the call
SentimentDivergenceRuleCall ==
    /\ generator.call.op = "none"
    /\ \E price \in RulePrices,
          news_sentiment \in
              {None} \cup {Some(NewsSentiment(s, n)) :
                              s \in SentimentScores, n \in ArticleCounts} :
          LET market ==
                  MarketSnapshot(1, OpenMarket(price), 100, 20, 5,
                                 Some("HIGH"))
          IN  generator' =
                  [generator EXCEPT !.call =
                      [op |-> "SentimentDivergenceRule.evaluate",
                       market |-> market, news_sentiment |-> news_sentiment,
                       result |-> SentimentDivergenceRule(market,
                                                          news_sentiment)]]
    /\ UNCHANGED <<store, clock, run, last, scan, limiter>>

\* previous prices: none, zero, and three off the prices where the float
\* arithmetic of the price change lands on a threshold
PreviousPrices == {None, Some(0), Some(20), Some(60), Some(90)}

\* 24h volumes of the market and of the remembered state
RuleVolumes == {0, 20, 60, 90, 200}
PreviousVolumes == {None, Some(0), Some(20), Some(30)}

\* VolumeSurgeRule.evaluate, by the call
VolumeSurgeRuleCall ==
    /\ generator.call.op = "none"
    /\ \E price \in RulePrices, volume_24h \in RuleVolumes,
          previous_price \in PreviousPrices,
          previous_volume_24h \in PreviousVolumes :
          LET market ==
                  MarketSnapshot(1, OpenMarket(price), 100, volume_24h, 5,
                                 Some("HIGH"))
          IN  generator' =
                  [generator EXCEPT !.call =
                      [op |-> "VolumeSurgeRule.evaluate",
                       market |-> market,
                       previous_price |-> previous_price,
                       previous_volume_24h |-> previous_volume_24h,
                       result |-> VolumeSurgeRule(market, previous_price,
                                                  previous_volume_24h)]]
    /\ UNCHANGED <<store, clock, run, last, scan, limiter>>

\* PriceMomentumRule.evaluate, by the call
PriceMomentumRuleCall ==
    /\ generator.call.op = "none"
    /\ \E price \in RulePrices, volume_24h \in RuleVolumes,
          previous_price \in PreviousPrices,
          previous_volume_24h \in PreviousVolumes :
          LET market ==
                  MarketSnapshot(1, OpenMarket(price), 100, volume_24h, 5,
                                 Some("HIGH"))
          IN  generator' =
                  [generator EXCEPT !.call =
                      [op |-> "PriceMomentumRule.evaluate",
                       market |-> market,
                       previous_price |-> previous_price,
                       previous_volume_24h |-> previous_volume_24h,
                       result |-> PriceMomentumRule(market, previous_price,
                                                    previous_volume_24h)]]
    /\ UNCHANGED <<store, clock, run, last, scan, limiter>>

\* mention counts of the last hour and of the last 24 hours
MentionCounts1h == {0, 1, 5, 10, 24}
MentionCounts24h == {0, 24, 48, 240}

\* SocialSpikeRule.evaluate, by the call
SocialSpikeRuleCall ==
    /\ generator.call.op = "none"
    /\ \E social_mentions \in
              {None} \cup {Some(SocialMention(c1, c24)) :
                              c1 \in MentionCounts1h,
                              c24 \in MentionCounts24h},
          social_sentiment \in
              {None} \cup {Some(SocialSentiment(s)) : s \in SentimentScores} :
          generator' =
              [generator EXCEPT !.call =
                  [op |-> "SocialSpikeRule.evaluate",
                   social_mentions |-> social_mentions,
                   social_sentiment |-> social_sentiment,
                   result |-> SocialSpikeRule(social_mentions,
                                              social_sentiment)]]
    /\ UNCHANGED <<store, clock, run, last, scan, limiter>>

InitRules == InitQuality

NextRules ==
    \/ SentimentDivergenceRuleCall
    \/ VolumeSurgeRuleCall
    \/ SocialSpikeRuleCall
    \/ PriceMomentumRuleCall

SpecRules == InitRules /\ [][NextRules]_vars

-----------------------------------------------------------------------------
(* Environment of the Generator *)

\* the market ids of the generator specification
GenMarketIds == 1..NumMarkets

\* what a market is like to the quality filter: HIGH tier and no end date;
\* no stored tier, a LOW volume and ten days to its end; closed
GenProfiles == {"high", "low", "closed"}

GenMarket(id, profile, price, volume_24h, now) ==
    CASE profile = "high" ->
             MarketSnapshot(id, OpenMarket(price), 100, volume_24h, 5,
                            Some("HIGH"))
      [] profile = "low" ->
             MarketSnapshot(id, Market(FALSE, FALSE, TRUE,
                                       Some(now + 10 * HoursPerDay), price),
                            20, volume_24h, 5, None)
      [] profile = "closed" ->
             MarketSnapshot(id, ClosedMarket(price), 100, volume_24h, 5,
                            Some("HIGH"))

\* what is observed of a market: its price and its 24h volume
Observation(price, volume_24h) == [price |-> price, volume_24h |-> volume_24h]
GenObservations ==
    {Observation(None, 20), Observation(Some(40), 20),
     Observation(Some(50), 60)}

GenMarkets(now) ==
    {GenMarket(id, profile, seen.price, seen.volume_24h, now) :
        id \in GenMarketIds, profile \in GenProfiles,
        seen \in GenObservations}

\* the contexts of a market: none; bullish news; a social spike with a
\* strong sentiment; a social spike with a weak one
Context(news_sentiment, social_mentions, social_sentiment) ==
    [news_sentiment |-> news_sentiment, social_mentions |-> social_mentions,
     social_sentiment |-> social_sentiment]
GenContexts ==
    {Context(None, None, None),
     Context(Some(NewsSentiment(60, 10)), None, None),
     Context(None, Some(SocialMention(10, 24)), Some(SocialSentiment(50))),
     Context(None, Some(SocialMention(5, 24)), Some(SocialSentiment(40)))}

\* persist, and the positions at which create_signal raises
Persistence(persist, faults) == [persist |-> persist, faults |-> faults]
GenPersistence ==
    {Persistence(FALSE, {}), Persistence(TRUE, {}), Persistence(TRUE, {1}),
     Persistence(TRUE, {2})}

\* process_market, by the call, on a Generator fresh or left by a
\* process_market
ProcessMarketCall ==
    /\ generator.call.op \in {"none", "process_market"}
    /\ \E market \in GenMarkets(clock), context \in GenContexts,
          persistence \in GenPersistence :
        LET answer ==
                ProcessMarket(generator.previous_states, market,
                              context.news_sentiment, context.social_mentions,
                              context.social_sentiment, persistence.persist,
                              TRUE, persistence.faults,
                              DefaultQualitySettings, MinConfidence, clock)
        IN  /\ generator' =
                  [previous_states |-> answer.previous_states,
                   call |-> [op |-> "process_market", market |-> market,
                             context |-> context,
                             persistence |-> persistence,
                             answer |-> answer]]
            /\ UNCHANGED <<store, clock, run, last, scan, limiter>>

InitGenerator == InitQuality

NextGenerator == ProcessMarketCall

SpecGenerator == InitGenerator /\ [][NextGenerator]_vars

-----------------------------------------------------------------------------
(* services/data_sources/rate_limiter.py: RateLimitedClient *)

\* In the specification of the rate limiter the clock counts seconds.

ApiRetryAfterMinutes == 15
SecondsPerMinute == 60
MaxBackoffSeconds == 7200

RECURSIVE PowerOfTwo(_)
PowerOfTwo(n) == IF n = 0 THEN 1 ELSE 2 * PowerOfTwo(n - 1)

Smaller(a, b) == IF a < b THEN a ELSE b

\* a retry-after header of a 429 response: its text is all digits or is not
\* (an HTTP date, an empty string); `seconds` is the number the digits spell;
\* `fits` is false of a number so large that utcnow() + timedelta(seconds)
\* is past the last datetime (a number of seconds beyond the model's
\* integers, which `seconds` then does not spell)
RetryAfterHeader(digits, seconds, fits) ==
    [digits |-> digits, seconds |-> seconds, fits |-> fits]

\* int(retry_after) if retry_after and retry_after.isdigit() else None
RetrySeconds(retry_after) ==
    IF retry_after = None THEN None
    ELSE IF ~Val(retry_after).digits THEN None
    ELSE Some([seconds |-> Val(retry_after).seconds,
               fits |-> Val(retry_after).fits])

\* what the wrapped call did: returned ("ok"), or raised an HTTPStatusError
\* of a status ("http"), a TimeoutException ("timeout"), a RequestError
\* ("request"), another Exception ("exception")
Outcome(kind, status, retry_after) ==
    [kind |-> kind, status |-> status, retry_after |-> retry_after]

\* an exception that leaves a method, by its name
RaisesError(name) == [raised |-> TRUE, value |-> name]

\* is_available that takes every window for elapsed
ClientIsAvailable_IgnoresWindow(client, now) ==
    [available |-> TRUE,
     client |-> [client EXCEPT !.rate_limited_until = None,
                               !.consecutive_failures = 0]]

\* RateLimitedClient.is_available: the answer, and the client after it; a
\* window that has elapsed is cleared and the failure counter with it
ClientIsAvailable(client, now) ==
    IF client.rate_limited_until = None
    THEN [available |-> TRUE, client |-> client]
    ELSE IF now >= Val(client.rate_limited_until)
    THEN [available |-> TRUE,
          client |-> [client EXCEPT !.rate_limited_until = None,
                                    !.consecutive_failures = 0]]
    ELSE [available |-> FALSE, client |-> client]

\* the window mark_rate_limited chooses: the retry-after value when it is
\* given and not zero, else base * 60 * 2^consecutive_failures, at most 7200
BackoffSeconds(client, retry_seconds) ==
    IF retry_seconds # None /\ Val(retry_seconds).seconds # 0
    THEN Val(retry_seconds).seconds
    ELSE Smaller(ApiRetryAfterMinutes * SecondsPerMinute
                     * PowerOfTwo(client.consecutive_failures),
                 MaxBackoffSeconds)

\* RateLimitedClient.mark_rate_limited: datetime + timedelta raises an
\* OverflowError on a retry-after value that does not fit, before any field
\* is assigned
MarkRateLimited(client, retry_seconds, now) ==
    IF retry_seconds # None /\ ~Val(retry_seconds).fits
    THEN [raised |-> TRUE, client |-> client, window |-> None]
    ELSE LET backoff_seconds == BackoffSeconds(client, retry_seconds)
         IN  [raised |-> FALSE,
              client |->
                  [client EXCEPT
                      !.rate_limited_until = Some(now + backoff_seconds),
                      !.consecutive_failures = @ + 1],
              window |-> Some(backoff_seconds)]

\* RateLimitedClient.mark_success
MarkSuccess(client) ==
    [client EXCEPT !.consecutive_failures = 0, !.last_error = None]

\* execute that backs off on every failure of the wrapped call
ExecuteReturn_BacksOffOnAny(client, outcome, now) ==
    IF outcome.kind = "ok"
    THEN [client |-> MarkSuccess(client), answer |-> Returns("result"),
          window |-> None]
    ELSE LET marked == MarkRateLimited(client, None, now)
         IN  [client |-> [marked.client EXCEPT
                               !.last_error = Some("Unexpected error")],
              answer |-> Returns("default"), window |-> marked.window]

\* RateLimitedClient.execute from the end of `await func(...)`: the client
\* afterwards, the answer of execute and the window it recorded
ExecuteReturn(client, outcome, now) ==
    IF outcome.kind = "ok"
    THEN [client |-> MarkSuccess(client), answer |-> Returns("result"),
          window |-> None]
    ELSE IF outcome.kind = "http" /\ outcome.status = 429
    THEN LET marked ==
                 MarkRateLimited(client, RetrySeconds(outcome.retry_after),
                                 now)
         IN  IF marked.raised
             THEN [client |-> client, answer |-> RaisesError("OverflowError"),
                   window |-> None]
             ELSE [client |-> [marked.client EXCEPT
                                   !.last_error =
                                       Some("HTTP 429: Rate limited")],
                   answer |-> Returns("default"), window |-> marked.window]
    ELSE [client |->
              [client EXCEPT !.last_error =
                  Some(CASE outcome.kind = "http" -> "HTTP error"
                         [] outcome.kind = "timeout" -> "Request timeout"
                         [] outcome.kind = "request" -> "Request error"
                         [] outcome.kind = "exception" -> "Unexpected error")],
          answer |-> Returns("default"), window |-> None]

-----------------------------------------------------------------------------
(* Environment of the RateLimitedClient *)

\* the clock advances by half the base window
LimiterStep == (ApiRetryAfterMinutes * SecondsPerMinute) \div 2

\* the retry-after headers of a 429: none, an HTTP date, "0", "120", and a
\* digit string too large for a datetime
RetryAfterHeaders ==
    {None, Some(RetryAfterHeader(FALSE, 0, TRUE)),
     Some(RetryAfterHeader(TRUE, 0, TRUE)),
     Some(RetryAfterHeader(TRUE, 120, TRUE)),
     Some(RetryAfterHeader(TRUE, 0, FALSE))}

LimiterOutcomes ==
    {Outcome("ok", 200, None), Outcome("http", 500, None),
     Outcome("timeout", 0, None), Outcome("request", 0, None),
     Outcome("exception", 0, None)}
    \cup {Outcome("http", 429, retry_after) :
             retry_after \in RetryAfterHeaders}

\* the fields of the client, without the bookkeeping of the model
ClientFields(client) ==
    [rate_limited_until |-> client.rate_limited_until,
     consecutive_failures |-> client.consecutive_failures,
     last_error |-> client.last_error]

\* execute up to `await func(...)`: a client that is backed off returns the
\* default at once; otherwise the wrapped call is in flight
ExecuteBegin ==
    /\ limiter.pending < MaxPending
    /\ LET check == ClientIsAvailable(limiter, clock)
       IN  limiter' =
               IF check.available
               THEN [check.client EXCEPT
                        !.pending = @ + 1,
                        !.call = [op |-> "execute.await",
                                  before |-> ClientFields(limiter)]]
               ELSE [check.client EXCEPT
                        !.call = [op |-> "execute.skip",
                                  before |-> ClientFields(limiter),
                                  answer |-> Returns("default")]]
    /\ UNCHANGED <<store, clock, run, last, scan, generator>>

\* execute from the end of `await func(...)` of a call in flight
ExecuteEnd ==
    /\ limiter.pending > 0
    /\ \E outcome \in LimiterOutcomes :
          LET ended == ExecuteReturn(limiter, outcome, clock)
          IN  limiter' =
                  [ended.client EXCEPT
                      !.pending = @ - 1,
                      !.streak =
                          IF outcome.kind = "ok" THEN None
                          ELSE IF ended.window # None
                          THEN Some([window |-> Val(ended.window),
                                     given |->
                                         LET retry_seconds ==
                                                 RetrySeconds(
                                                     outcome.retry_after)
                                         IN  /\ retry_seconds # None
                                             /\ Val(retry_seconds).seconds
                                                    # 0])
                          ELSE @,
                      !.call = [op |-> "execute.return",
                                before |-> ClientFields(limiter),
                                outcome |-> outcome,
                                answer |-> ended.answer,
                                window |-> ended.window]]
    /\ UNCHANGED <<store, clock, run, last, scan, generator>>

\* time passes
LimiterTick ==
    /\ clock < LimiterTicks * LimiterStep
    /\ clock' = clock + LimiterStep
    /\ limiter' = [limiter EXCEPT !.call = [op |-> "none"]]
    /\ UNCHANGED <<store, run, last, scan, generator>>

InitLimiter ==
    /\ store = NewStore(0)
    /\ clock = 0
    /\ run = Idle
    /\ last = NoLast
    /\ scan = NoScan
    /\ generator = NoGenerator
    /\ limiter = NoLimiter

NextLimiter ==
    \/ ExecuteBegin
    \/ ExecuteEnd
    \/ LimiterTick

SpecLimiter == InitLimiter /\ [][NextLimiter]_vars


-----------------------------------------------------------------------------
(* The rules and the Generator together: every confidence computed *)

NextConfidence ==
    \/ NextRules
    \/ NextGenerator

SpecConfidence == InitRules /\ [][NextConfidence]_vars


-----------------------------------------------------------------------------
(* Environment of evaluate_market *)

\* the orders of the Generator's rule list
RuleOrders ==
    {order \in [1..Len(Rules) -> {Rules[i] : i \in 1..Len(Rules)}] :
        \A i, j \in 1..Len(Rules) : order[i] = order[j] => i = j}

\* the price and the 24h volume of the market at an evaluation
EvaluateObservations ==
    {Observation(None, 20), Observation(Some(0), 20),
     Observation(Some(20), 20), Observation(Some(60), 90)}

\* the contexts of an evaluation: none, and bullish news together with a
\* social spike
EvaluateContexts ==
    {Context(None, None, None),
     Context(Some(NewsSentiment(60, 10)), Some(SocialMention(10, 24)),
             Some(SocialSentiment(50)))}

\* evaluate_market, by the call, of a Generator whose rules are in some
\* order
EvaluateMarketCall ==
    \E order \in RuleOrders, observation \in EvaluateObservations,
       context \in EvaluateContexts :
        LET market ==
                MarketSnapshot(1, OpenMarket(observation.price), 100,
                               observation.volume_24h, 5, Some("HIGH"))
            answer ==
                EvaluateMarket(order, generator.previous_states, market,
                               context.news_sentiment,
                               context.social_mentions,
                               context.social_sentiment, MinConfidence)
        IN  /\ generator' =
                  [previous_states |-> answer.previous_states,
                   call |-> [op |-> "evaluate_market", rules |-> order,
                             market |-> market, context |-> context,
                             answer |-> answer]]
            /\ UNCHANGED <<store, clock, run, last, scan, limiter>>

InitEvaluate == InitQuality

NextEvaluate == EvaluateMarketCall

SpecEvaluate == InitEvaluate /\ [][NextEvaluate]_vars


-----------------------------------------------------------------------------
(* Two tracking runs on one event loop: tracking_background_task and
   trigger_tracking_update *)

\* The methods of the store are coroutines that never suspend (the client
\* they call is synchronous); a run suspends only inside
\* update_signal_tracking, at `await self.polymarket.get_market(...)`.
\* Between two suspensions a run is one step: it starts by fetching its list
\* and stops at the first get_market; resumed, it finishes the signal it
\* waited for and goes on to the next get_market, or, after its last signal,
\* through the whole of expire_stale_signals.

\* the two runs
TrackingRuns == {"tracking_background_task", "trigger_tracking_update"}

RECURSIVE ExpireAll(_, _, _, _)
\* the loop of expire_stale_signals over the list it fetched
ExpireAll(db, list, cutoff, now) ==
    IF list = <<>> THEN db
    ELSE LET out == ExpireSignal(Head(list), cutoff, now, "none")
         IN  ExpireAll(StoreAfter(db, Head(list).id, out), Tail(list),
                       cutoff, now)

\* expire_stale_signals(max_age_days) from its first line to its return;
\* with the fault "write" its first update_signal raises, and nothing is
\* written
ExpireStaleSignals(db, now, fault) ==
    IF fault = "write" THEN db
    ELSE ExpireAll(db, GetActiveSignals(db),
                   now - TrackingExpireDays * HoursPerDay, now)

\* run, in this specification: for each of the two runs the signals of its
\* own active_signals it has not finished (it waits in get_market for the
\* first of them; none: the run is not under way), and for each signal the
\* run whose write gave it a terminal status (None: no run did)
NoRuns ==
    [op |-> "runs",
     list |-> [t \in TrackingRuns |-> <<>>],
     moved |-> [id \in DOMAIN NewStore(NumSignals) |-> None]]

\* the run whose write gave each signal its terminal status
MovedBy(moved, task, db, after) ==
    [id \in DOMAIN moved |->
        IF db[id].status \notin TerminalStatus
           /\ after[id].status \in TerminalStatus
        THEN Some(task) ELSE moved[id]]

\* what a step of a run leaves behind
RunRecord(task, id, market, out) ==
    [op |-> "run", task |-> task, id |-> id, market |-> market,
     write |-> out.write, raised |-> out.raised]

\* the answers of get_market to the runs
RunAnswers ==
    {None, Some(OpenMarket(Some(60))), Some(ClosedMarket(Some(40))),
     Some(ClosedMarket(Some(60)))}

RunInstants == {1, 24, 721}

\* a run starts: active_signals = get_active_signals(), then the first
\* get_market; with no ACTIVE signal the loop is empty and the run goes
\* through expire_stale_signals and ends
TrackingRunStart(task) ==
    /\ run.list[task] = <<>>
    /\ LET active_signals == GetActiveSignals(store)
       IN  IF active_signals = <<>>
           THEN \E fault \in {"none", "write"} :
                   /\ store' = ExpireStaleSignals(store, clock, fault)
                   /\ run' = [run EXCEPT
                                 !.moved = MovedBy(@, task, store, store')]
                   /\ last' = [op |-> "run", task |-> task, id |-> 0,
                               market |-> None, write |-> FALSE,
                               raised |-> FALSE]
           ELSE /\ run' = [run EXCEPT !.list[task] = active_signals]
                /\ last' = NoLast
                /\ UNCHANGED store
    /\ UNCHANGED <<clock, scan, generator, limiter>>

\* get_market answers a run: the rest of update_signal_tracking for the
\* signal of the run's own list, then the next signal's get_market, or
\* after the last signal expire_stale_signals and the end of the run
TrackingRunResume(task) ==
    /\ run.list[task] # <<>>
    /\ \E market \in RunAnswers, fault \in Faults,
          sweep \in {"none", "write"} :
          LET signal == Head(run.list[task])
              rest == Tail(run.list[task])
              out == UpdateSignalTracking(signal, Seen(market, fault), clock,
                                          fault)
              written == StoreAfter(store, signal.id, out)
          IN  /\ store' = IF rest = <<>>
                          THEN ExpireStaleSignals(written, clock, sweep)
                          ELSE written
              /\ run' = [run EXCEPT
                            !.list[task] = rest,
                            !.moved = MovedBy(@, task, store, store')]
              /\ last' = RunRecord(task, signal.id, Seen(market, fault), out)
    /\ UNCHANGED <<clock, scan, generator, limiter>>

InitRuns ==
    /\ store = NewStore(NumSignals)
    /\ clock = NumSignals - 1
    /\ run = NoRuns
    /\ last = NoLast
    /\ scan = NoScan
    /\ generator = NoGenerator
    /\ limiter = NoLimiter

NextRuns ==
    \/ AdvanceClock(RunInstants)
    \/ \E task \in TrackingRuns : TrackingRunStart(task)
    \/ \E task \in TrackingRuns : TrackingRunResume(task)

SpecRuns == InitRuns /\ [][NextRuns]_vars


-----------------------------------------------------------------------------
(* services/data_sources/polymarket.py: get_markets of the two sources *)

\* limit: int = 100
DefaultLimit == 100

\* a market as a source holds it: the fields the filters of get_markets
\* read (the mock redraws the price on every call; no filter reads it)
SourceMarket(id, active, market) ==
    [id |-> id, active |-> active, closed |-> market.closed,
     archived |-> market.archived,
     accepting_orders |-> market.accepting_orders,
     end_date |-> market.end_date]

\* [m for m in markets if m.active == active], when active is not None
FilterActive(markets, active) ==
    IF active = None THEN markets
    ELSE SelectSeq(markets, LAMBDA m : m.active = Val(active))

\* list(self._markets.values())[offset : offset + limit]
Slice(markets, offset, limit) ==
    SubSeq(markets, offset + 1,
           IF offset + limit < Len(markets) THEN offset + limit
           ELSE Len(markets))

\* MockPolymarketDataSource.get_markets(active=..., offset=...,
\* filter_current=...) when it holds `markets`; filter_current = None: the
\* caller leaves the keyword out.  The method has no parameter of that
\* name, so a call that passes it raises TypeError before the body runs
MockGetMarkets(markets, active, offset, filter_current, now) ==
    IF filter_current # None
    THEN RaisesError("TypeError")
    ELSE Returns(FilterActive(Slice(markets, offset, DefaultLimit), active))

\* PolymarketDataSource.get_markets(active=..., offset=...,
\* filter_current=...) when the Gamma API holds `markets` and serves the
\* `active` and `offset` parameters of the request
RealGetMarkets(markets, active, offset, filter_current, now) ==
    GetMarkets(Returns(FilterActive(Slice(markets, offset, DefaultLimit),
                                    active)),
               filter_current = None \/ Val(filter_current), now)

-----------------------------------------------------------------------------
(* Environment of get_markets *)

\* the markets a source may hold: open, closed, archived and not active,
\* archived and active, open and not active, past its end date
SourceMarkets ==
    <<SourceMarket(1, TRUE, OpenMarket(None)),
      SourceMarket(2, TRUE, ClosedMarket(None)),
      SourceMarket(3, FALSE, ArchivedMarket(None)),
      SourceMarket(4, TRUE, ArchivedMarket(None)),
      SourceMarket(5, FALSE, OpenMarket(None)),
      SourceMarket(6, TRUE, EndedMarket(None))>>

RECURSIVE Holdings(_)
\* the lists of at most n distinct markets of SourceMarkets, in any order
Holdings(n) ==
    IF n = 0 THEN {<<>>}
    ELSE LET shorter == Holdings(n - 1)
         IN  shorter \cup
             UNION {{Append(l, SourceMarkets[i]) :
                        i \in {j \in 1..Len(SourceMarkets) : j \notin IdsOf(l)}} :
                    l \in {x \in shorter : Len(x) = n - 1}}

\* one call of get_markets on a source that holds `held`
SourceCall(source, held, active, offset, filter_current, answer) ==
    [op |-> "get_markets", source |-> source, held |-> held,
     active |-> active, offset |-> offset,
     filter_current |-> filter_current, answer |-> answer]

MockGetMarketsCall ==
    /\ scan.op = "none"
    /\ \E held \in Holdings(MaxHeld), active \in {None, Some(TRUE), Some(FALSE)},
          offset \in {0, 1}, filter_current \in {None, Some(TRUE), Some(FALSE)} :
          scan' = SourceCall("mock", held, active, offset, filter_current,
                             MockGetMarkets(held, active, offset,
                                            filter_current, clock))
    /\ UNCHANGED <<store, clock, run, last, generator, limiter>>

RealGetMarketsCall ==
    /\ scan.op = "none"
    /\ \E held \in Holdings(MaxHeld), active \in {None, Some(TRUE), Some(FALSE)},
          offset \in {0, 1}, filter_current \in {None, Some(TRUE), Some(FALSE)} :
          scan' = SourceCall("real", held, active, offset, filter_current,
                             RealGetMarkets(held, active, offset,
                                            filter_current, clock))
    /\ UNCHANGED <<store, clock, run, last, generator, limiter>>

InitSources == InitUniverse

NextSources ==
    \/ MockGetMarketsCall
    \/ RealGetMarketsCall

SpecSources == InitSources /\ [][NextSources]_vars


-----------------------------------------------------------------------------
(* Properties *)

\* the step was a call of update_signal_tracking on signal id
Tracked(id) == last'.op = "update" /\ last'.id = id
\* the step was the visit of signal id by the expiry sweep
Swept(id) == last'.op = "expire" /\ last'.id = id
\* the market the call fetched is m
Fetched(m) == last'.market = Some(m)

ResolvedStatus == {"RESOLVED_WIN", "RESOLVED_LOSS"}

HorizonsOf(signal) ==
    <<signal.price_1h, signal.gain_1h_pct, signal.price_24h,
      signal.gain_24h_pct, signal.price_7d, signal.gain_7d_pct>>

\* C1: a status only changes from ACTIVE; to RESOLVED_WIN or RESOLVED_LOSS
\* only in a call of update_signal_tracking that fetched a closed market, to
\* EXPIRED only in the expiry sweep; a terminal status never changes.
C1_StatusLifecycle ==
    [][\A id \in DOMAIN store :
          store'[id].status # store[id].status =>
             /\ store[id].status = "ACTIVE"
             /\ \/ /\ store'[id].status \in ResolvedStatus
                   /\ Tracked(id)
                   /\ last'.market # None
                   /\ Val(last'.market).closed
                \/ /\ store'[id].status = "EXPIRED"
                   /\ Swept(id)]_vars

\* a call on a terminal signal with a closed market has just ended
C1_Witness ==
    /\ last.op = "update"
    /\ last.market # None
    /\ Val(last.market).closed
    /\ Val(last.market).current_price # None
    /\ ~last.write
    /\ store[last.id].status \in TerminalStatus

\* C2: update_signal_tracking on a terminal signal changes no field of it
\* and writes nothing to the store.
C2_TerminalIsNoOp ==
    [][\A id \in DOMAIN store :
          (Tracked(id) /\ store[id].status \in TerminalStatus) =>
             (store' = store /\ ~last'.write)]_vars

\* C3: a horizon price and its gain, once set, are never changed.
C3_HorizonWriteOnce ==
    [][\A id \in DOMAIN store :
          /\ store[id].price_1h # None =>
                /\ store'[id].price_1h = store[id].price_1h
                /\ store'[id].gain_1h_pct = store[id].gain_1h_pct
          /\ store[id].price_24h # None =>
                /\ store'[id].price_24h = store[id].price_24h
                /\ store'[id].gain_24h_pct = store[id].gain_24h_pct
          /\ store[id].price_7d # None =>
                /\ store'[id].price_7d = store[id].price_7d
                /\ store'[id].gain_7d_pct = store[id].gain_7d_pct]_vars

\* a call that found a price other than the one recorded at 1h, on a
\* market that is current, has just ended
C3_Witness ==
    /\ last.op = "update"
    /\ ~last.raised
    /\ last.market \in {Some(OpenMarket(Some(40))), Some(OpenMarket(Some(60)))}
    /\ store[last.id].price_1h # None
    /\ store[last.id].price_1h # Val(last.market).current_price

\* C4: a horizon price is only set by a call of update_signal_tracking made
\* when the time since created_at has reached the horizon.
C4_HorizonNotEarly ==
    [][\A id \in DOMAIN store :
          LET elapsed == clock' - store[id].created_at
          IN  /\ (store[id].price_1h = None /\ store'[id].price_1h # None) =>
                    (Tracked(id) /\ elapsed >= 1)
              /\ (store[id].price_24h = None /\ store'[id].price_24h # None) =>
                    (Tracked(id) /\ elapsed >= 24)
              /\ (store[id].price_7d = None /\ store'[id].price_7d # None) =>
                    (Tracked(id) /\ elapsed >= 168)]_vars

\* a call made 23 hours after creation has written the store and left
\* price_24h unset
C4_Witness ==
    /\ last.op = "update"
    /\ last.write /\ ~last.raised
    /\ clock - store[last.id].created_at = 23
    /\ store[last.id].price_1h # None
    /\ store[last.id].price_24h = None

\* C5: price_24h set implies price_1h set, price_7d set implies price_24h
\* set, and no horizon field changes once price_at_resolution is set.
C5_FilledInTimeOrder ==
    [][\A id \in DOMAIN store :
          /\ store'[id].price_24h # None => store'[id].price_1h # None
          /\ store'[id].price_7d # None => store'[id].price_24h # None
          /\ store[id].price_at_resolution # None =>
                HorizonsOf(store'[id]) = HorizonsOf(store[id])]_vars

\* C6: a call for an ACTIVE signal whose market is closed and has a price
\* calls the store and, unless the store raises, leaves the signal with that
\* price as price_at_resolution, its gain as gain_final_pct, RESOLVED_WIN if
\* the gain is above 0 and RESOLVED_LOSS otherwise, and resolved_at set.
C6_ResolutionOnClosure ==
    [][\A id \in DOMAIN store :
          (/\ Tracked(id)
           /\ store[id].status = "ACTIVE"
           /\ last'.market # None
           /\ Val(last'.market).closed
           /\ Val(last'.market).current_price # None) =>
             LET price == Val(Val(last'.market).current_price)
                 entry == store[id].entry_price
                 profit == IF store[id].direction = "BUY"
                           THEN price - entry ELSE entry - price
                 after == store'[id]
             IN  /\ last'.write
                 /\ ~last'.raised =>
                       /\ after.price_at_resolution = Some(price)
                       /\ after.gain_final_pct # None
                       /\ Val(after.gain_final_pct)[1] * entry
                             = profit * 100 * Val(after.gain_final_pct)[2]
                       /\ Val(after.gain_final_pct)[2] > 0
                       /\ after.status = IF profit > 0 THEN "RESOLVED_WIN"
                                         ELSE "RESOLVED_LOSS"
                       /\ after.resolved_at = Some(clock')
                       /\ HorizonsOf(after) = HorizonsOf(store[id])]_vars

\* a signal has just been resolved at its entry price: gain 0, a loss
C6_Witness ==
    /\ last.op = "update"
    /\ last.write /\ ~last.raised
    /\ last.market # None
    /\ Val(last.market).closed
    /\ Val(last.market).current_price = Some(store[last.id].entry_price)
    /\ store[last.id].gain_final_pct = Some(<<0, 1>>)
    /\ store[last.id].status = "RESOLVED_LOSS"

C8_NotCurrentNotClosedIsNoOp ==
    [][\A id \in DOMAIN store :
          (/\ Tracked(id)
           /\ last'.market # None
           /\ ~Val(last'.market).closed
           /\ \/ Val(last'.market).archived
              \/ ~Val(last'.market).accepting_orders
              \/ /\ Val(last'.market).end_date # None
                 /\ Val(Val(last'.market).end_date) < clock') =>
             (store' = store /\ ~last'.write)]_vars

\* a call for an ACTIVE signal, past its first horizon with price_1h unset,
\* has just found its market archived
C8_Witness ==
    /\ last.op = "update"
    /\ last.market = Some(ArchivedMarket(Some(60)))
    /\ store[last.id].status = "ACTIVE"
    /\ clock - store[last.id].created_at >= 1
    /\ store[last.id].price_1h = None

\* C9: when expire_stale_signals has returned, every signal of the store
\* that is still ACTIVE has a created_at not before the cutoff, and every
\* EXPIRED signal has a created_at before it and a resolved_at.
C9_SweepExpiresEveryStaleSignal ==
    last.op = "expire_done" =>
        \A id \in DOMAIN store :
            /\ store[id].status = "ACTIVE" =>
                  ~(store[id].created_at < last.cutoff)
            /\ store[id].status = "EXPIRED" =>
                  /\ store[id].created_at < last.cutoff
                  /\ store[id].resolved_at # None

\* C10: when update_all_active_signals has returned, every signal it
\* fetched has been visited and the count is the number of visits that did
\* not raise.
C10_BatchSurvivesFailure ==
    last.op = "update_all_done" =>
        /\ last.attempted = last.n
        /\ last.count = last.n - last.failed

\* a batch in which one call raised and another did not has returned
C10_Witness ==
    /\ last.op = "update_all_done"
    /\ last.failed > 0
    /\ last.count > 0

\* C11: a sweep of expire_stale_signals in which the write of one stale
\* signal raised still ends with every other stale signal EXPIRED: when the
\* sweep ends, the only signals left ACTIVE with a created_at before the
\* cutoff are those whose own write raised.
C11_SweepSurvivesWriteFailure ==
    [][(run.op = "expire" /\ run'.op = "idle") =>
          \A id \in DOMAIN store :
              (store'[id].status = "ACTIVE" /\ store'[id].created_at < run.cutoff)
                  => (Swept(id) /\ last'.raised)]_vars

C13_NoPartialUpdate ==
    \A id \in DOMAIN store :
        LET s == store[id] IN
        /\ (s.price_1h # None) <=> (s.gain_1h_pct # None)
        /\ (s.price_24h # None) <=> (s.gain_24h_pct # None)
        /\ (s.price_7d # None) <=> (s.gain_7d_pct # None)
        /\ (s.price_at_resolution # None) <=> (s.gain_final_pct # None)
        /\ s.status \in TerminalStatus => s.resolved_at # None

\* the write of a resolution with its 1h checkpoint has just failed, in the
\* middle of a batch
C13_Witness ==
    /\ last.op = "update"
    /\ last.write /\ last.raised
    /\ run.op = "update_all"
    /\ last.market = Some(ClosedMarket(Some(40)))
    /\ store[last.id].status = "ACTIVE"
    /\ store[last.id].price_1h = None

Tradeable(env, slug, now) ==
    /\ ~env.by_slug[slug].raised
    /\ env.by_slug[slug].value # None
    /\ IsMarketCurrent(Val(env.by_slug[slug].value), now)

\* C17: with a non-empty override list, the markets get_markets_to_scan
\* returns are the markets of the override slugs that the source returns
\* and that are current, one per slug and in the order of the list: none
\* comes from the watchlist or from the discovery, enabled or not.
C17_OverridesAreTheUniverse ==
    (scan.op = "get_markets_to_scan" /\ scan.override # <<>>) =>
        LET resolved == SelectSeq(scan.override,
                                  LAMBDA s : Tradeable(scan.env, s, clock))
        IN  /\ Len(scan.markets) = Len(resolved)
            /\ \A i \in 1..Len(resolved) :
                  scan.markets[i] = Val(scan.env.by_slug[resolved[i]].value)

\* a call with overrides, one of them closed and one unknown, a watchlist
\* with another tradeable market and a discovery, enabled, that has an
\* eligible market to offer
C17_Witness ==
    /\ scan.op = "get_markets_to_scan"
    /\ scan.override = <<1, 8, 9>>
    /\ scan.settings.watchlist = <<8, 2, 9>>
    /\ scan.settings.signal_discovery_enabled
    /\ scan.env.listed = Returns(<<Catalogue[3]>>)
    /\ scan.markets = <<Catalogue[1]>>

\* the market is one the discovery may add: listed, current, not among the
\* watchlist markets, of sufficient volume, priced within the band
Eligible(m, env, watched, settings, now) ==
    /\ ~env.listed.raised
    /\ \E i \in 1..Len(env.listed.value) : env.listed.value[i] = m
    /\ IsMarketCurrent(m, now)
    /\ m.id \notin IdsOf(watched)
    /\ m.volume >= settings.signal_discovery_min_volume
    /\ m.current_price # None
    /\ Val(m.current_price) >= MinPriceForSignals
    /\ Val(m.current_price) <= MaxPriceForSignals

\* C18: with no overrides and discovery enabled, the markets added after
\* the watchlist markets are at most signal_discovery_max_markets, each of
\* them eligible, in descending order of volume, and no eligible market
\* left out has more volume than one that was added or is left out while
\* there is room; when the discovery fetch raises none is added.
C18_DiscoveryAddsTopEligible ==
    (/\ scan.op = "get_markets_to_scan"
     /\ scan.override = <<>>
     /\ scan.settings.signal_discovery_enabled) =>
        LET settings == scan.settings
            watched == SelectSeq(settings.watchlist,
                                 LAMBDA s : Tradeable(scan.env, s, clock))
            added == SubSeq(scan.markets, Len(watched) + 1, Len(scan.markets))
            eligible == {m \in {Catalogue[i] : i \in 1..Len(Catalogue)} :
                            Eligible(m, scan.env,
                                     SubSeq(scan.markets, 1, Len(watched)),
                                     settings, clock)}
        IN  /\ Len(scan.markets) >= Len(watched)
            /\ Len(added) <= settings.signal_discovery_max_markets
            /\ \A i \in 1..Len(added) : added[i] \in eligible
            /\ \A i \in 1..Len(added), j \in 1..Len(added) :
                  i < j => added[i].volume >= added[j].volume
            /\ \A m \in eligible :
                  m.id \notin IdsOf(added) =>
                     /\ Len(added) = settings.signal_discovery_max_markets
                     /\ \A i \in 1..Len(added) : added[i].volume >= m.volume
            /\ scan.env.listed.raised => added = <<>>

\* the markets of the scan whose evaluation raised
RaisedIn(markets, env) ==
    SelectSeq(markets, LAMBDA m : env.gen[m.id].raised)

\* the signals of a market in a list of signals
SignalsFor(signals, m) ==
    SelectSeq(signals, LAMBDA sig : sig.market_id = m.id)

\* C15: a run_scan over markets of which some raise in their evaluation
\* records exactly one error string for each of those, calls the Generator
\* for every market, in order, counts the markets that did not raise, and
\* returns the signals of those markets, in the order of the markets.
C15_ScanSurvivesMarketFailure ==
    (scan.op = "run_scan" /\ scan.markets # <<>>) =>
        LET markets == scan.markets
            env == scan.env
            result == scan.result
            failed == RaisedIn(markets, env)
        IN  /\ Len(result.errors) = Len(failed)
            /\ \A i \in 1..Len(failed) :
                  result.errors[i] = ScanError("scan_market", failed[i].slug)
            /\ Len(scan.calls) = Len(markets)
            /\ \A i \in 1..Len(markets) : scan.calls[i].market_id = markets[i].id
            /\ result.markets_scanned = Len(markets) - Len(failed)
            /\ result.signals_generated = Len(result.signals)
            /\ \A i \in 1..Len(markets) :
                  Len(SignalsFor(result.signals, markets[i])) =
                     IF env.gen[markets[i].id].raised THEN 0
                     ELSE env.gen[markets[i].id].value
            /\ \A i \in 1..Len(result.signals), j \in 1..Len(result.signals) :
                  i < j => result.signals[i].market_id <= result.signals[j].market_id

\* a scan of three markets, the second raising, has returned the signals
\* of the first and the third and one error
C15_Witness ==
    /\ scan.op = "run_scan"
    /\ Len(scan.markets) = 3
    /\ scan.env.gen = <<Generated(1), GeneratorRaises, Generated(1)>>
    /\ scan.result.signals = SignalsOf(scan.markets[1], 1)
                                \o SignalsOf(scan.markets[3], 1)
    /\ scan.result.errors = <<ScanError("scan_market", scan.markets[2].slug)>>
    /\ scan.result.markets_scanned = 2

\* C16: in a scan no error string comes from a context fetch, the Generator
\* is called for every market, and each context object whose fetch was
\* made and returned an object is among the arguments of that call, whatever
\* the other fetches for the market did.
C16_PartialContextIsPassed ==
    (scan.op = "run_scan" /\ scan.markets # <<>>) =>
        LET settings == scan.settings
            env == scan.env
        IN  /\ Len(scan.result.errors) = Len(RaisedIn(scan.markets, env))
            /\ Len(scan.calls) = Len(scan.markets)
            /\ \A i \in 1..Len(scan.calls) :
                  LET call == scan.calls[i]
                      market == scan.markets[i]
                  IN  /\ (~settings.skip_news_api /\ env.news = "ok") =>
                            call.news_sentiment =
                               Some(ContextObject("news_sentiment", market))
                      /\ (~settings.skip_social_api /\ env.mentions = "ok") =>
                            call.social_mentions =
                               Some(ContextObject("social_mentions", market))
                      /\ (/\ ~settings.skip_social_api
                          /\ env.mentions # "raise"
                          /\ env.sentiment = "ok") =>
                            call.social_sentiment =
                               Some(ContextObject("social_sentiment", market))

\* no write that creates a signal comes before the upsert of its market
CreatedAfterUpsert(writes, markets) ==
    \A i \in 1..Len(writes) :
        writes[i].op = "create_signal" =>
           \E j \in 1..(i - 1) :
              /\ writes[j].op = "upsert_markets"
              /\ Val(writes[i].signal).market_id \in writes[j].markets
              /\ writes[j].markets = IdsOf(markets)

\* C19: the writes of a run_scan: with persist set and a signal produced,
\* the upsert of the scanned markets comes first and the creation of each
\* signal after it (all of them when nothing raises in the store); with
\* persist unset or no signal produced there is no write.
C19_MarketsUpsertedFirst ==
    scan.op = "run_scan" =>
        IF scan.persist /\ scan.result.signals # <<>>
        THEN /\ CreatedAfterUpsert(scan.writes, scan.markets)
             /\ scan.env.db_fault.op = "none" =>
                   /\ Len(scan.writes) = 1 + Len(scan.result.signals)
                   /\ \A i \in 1..Len(scan.result.signals) :
                         scan.writes[i + 1].signal = Some(scan.result.signals[i])
        ELSE scan.writes = <<>>

\* a scan with persist set that produced three signals has written the
\* markets and then one signal, and the creation of the second has raised
C19_Witness ==
    /\ scan.op = "run_scan"
    /\ scan.persist
    /\ Len(scan.result.signals) = 3
    /\ scan.env.db_fault = DbFault("create", 2)
    /\ Len(scan.writes) = 2
    /\ scan.writes[1].op = "upsert_markets"
    /\ scan.writes[2].op = "create_signal"

\* C20: the ScanResult of every run_scan has a degraded map with the three
\* entries: news_api true exactly when news is skipped by config or its
\* rate limiter is in its backoff, social_api likewise, polymarket_api true
\* exactly when its rate limiter is in its backoff.
C20_DegradedMapAlwaysThere ==
    scan.op = "run_scan" =>
        LET degraded == scan.result.degraded
            limited(until) == until # None /\ clock < Val(until)
        IN  /\ DOMAIN degraded = {"news_api", "social_api", "polymarket_api"}
            /\ degraded.news_api <=>
                  (scan.settings.skip_news_api
                      \/ limited(scan.env.rate_limited_until.newsapi))
            /\ degraded.social_api <=>
                  (scan.settings.skip_social_api
                      \/ limited(scan.env.rate_limited_until.twitter))
            /\ degraded.polymarket_api <=>
                  limited(scan.env.rate_limited_until.polymarket)

\* the step left a call of should_skip_market, of adjust_confidence_for_quality
SkipCalled == generator.call.op = "should_skip_market"
AdjustCalled == generator.call.op = "adjust_confidence_for_quality"

\* the skip conditions in the order the specification lists them, each with
\* whether it holds of the market and the reason it reports
SkipConditions(market, settings, now) ==
    <<[holds |-> market.closed, reason |-> "Market is closed"],
      [holds |-> market.archived, reason |-> "Market is archived"],
      [holds |-> ~market.accepting_orders,
       reason |-> "Market is not accepting orders"],
      [holds |-> market.end_date # None /\ Val(market.end_date) < now,
       reason |-> "Market has already expired"],
      [holds |-> /\ market.end_date # None
                 /\ (Val(market.end_date) - now) \div HoursPerDay
                        < settings.min_days_to_expiry,
       reason |-> "Market expires in days"],
      [holds |-> TierOrder(TierOf(market))
                     < MinTierValue(settings.min_market_tier),
       reason |-> "Market tier below minimum"],
      [holds |-> /\ market.current_price # None
                 /\ Val(market.current_price) < settings.min_price_for_signals,
       reason |-> "Price below minimum"],
      [holds |-> /\ market.current_price # None
                 /\ Val(market.current_price) > settings.max_price_for_signals,
       reason |-> "Price above maximum"]>>

\* C21: should_skip_market reports the reason of the first condition that
\* holds, in the order closed, archived, not accepting orders, past the end
\* date, fewer than min_days_to_expiry days left, tier below
\* min_market_tier, price below the band, price above it; and (false, "")
\* when none holds.
C21_FirstMatchingReason ==
    SkipCalled =>
        LET conditions ==
                SkipConditions(generator.call.market, generator.call.settings,
                               clock)
            matching == {i \in DOMAIN conditions : conditions[i].holds}
        IN  IF matching = {} THEN generator.call.result = NoSkip
            ELSE LET first == CHOOSE i \in matching :
                                  \A j \in matching : i <= j
                 IN  generator.call.result = Skip(conditions[first].reason)

\* a market that is closed and of a tier below the minimum was reported as
\* closed
C21_Witness ==
    /\ SkipCalled
    /\ generator.call.market.closed
    /\ generator.call.market.tier = Some("THIN")
    /\ generator.call.settings.min_market_tier = "LOW"
    /\ generator.call.result = Skip("Market is closed")

\* the market has one of the explicit disqualifying flags
Flagged(market) ==
    market.closed \/ market.archived \/ ~market.accepting_orders

\* C22, as stated: a market with no price is never skipped for its price,
\* a market with no stored tier is never skipped for its tier, and a
\* flagged market is always skipped.
C22_MissingTierNeverSkips ==
    SkipCalled =>
        /\ generator.call.market.current_price = None
              => generator.call.result.reason
                     \notin {"Price below minimum", "Price above maximum"}
        /\ generator.call.market.tier = None
              => generator.call.result.reason # "Market tier below minimum"
        /\ Flagged(generator.call.market) => generator.call.result.skip

\* C22, amended: a market with no price is never skipped for its price; a
\* market with no stored tier is judged by the tier of its volume: it is
\* skipped for its tier exactly when no earlier condition holds and the
\* tier computed from its volume is below the minimum; and a flagged market
\* is always skipped.
C22_MissingTierIsComputed ==
    SkipCalled =>
        LET market == generator.call.market
            settings == generator.call.settings
            earlier ==
                \/ Flagged(market)
                \/ /\ market.end_date # None
                   /\ \/ Val(market.end_date) < clock
                      \/ (Val(market.end_date) - clock) \div HoursPerDay
                             < settings.min_days_to_expiry
            computed_below ==
                TierOrder(ComputeTier(market.volume))
                    < MinTierValue(settings.min_market_tier)
        IN  /\ market.current_price = None
                  => generator.call.result.reason
                         \notin {"Price below minimum", "Price above maximum"}
            /\ market.tier = None
                  => (generator.call.result.reason
                          = "Market tier below minimum"
                      <=> ~earlier /\ computed_below)
            /\ Flagged(market) => generator.call.result.skip

\* an open market with no stored tier and a THIN volume was skipped for its
\* tier
C22_Witness ==
    /\ SkipCalled
    /\ generator.call.market.tier = None
    /\ generator.call.market.volume < TierThinBelow
    /\ generator.call.market.current_price = None
    /\ ~Flagged(generator.call.market)
    /\ generator.call.result = Skip("Market tier below minimum")

\* the multiplier of a tier, in hundredths: 0.85 for LOW, 0.95 for MEDIUM,
\* 1.0 for HIGH; a THIN market takes no penalty
TierMultiplier(tier) ==
    CASE tier = "LOW" -> 85
      [] tier = "MEDIUM" -> 95
      [] tier = "HIGH" -> 100
      [] tier = "THIN" -> 100

\* C25: the adjusted confidence is the raw confidence times the multiplier
\* of the tier, times max(0.5, days_remaining/14) when fewer than 14 days
\* remain; it is at most the raw confidence and at least half of the
\* tier-adjusted one.
C25_AdjustmentNeverBoosts ==
    AdjustCalled =>
        LET market == generator.call.market
            raw == generator.call.confidence
            adjusted == generator.call.result
            tier == IF market.tier # None THEN Val(market.tier)
                    ELSE ComputeTier(market.volume)
            tier_adjusted == Frac(raw[1] * TierMultiplier(tier), raw[2] * 100)
            days == (Val(market.end_date) - clock) \div HoursPerDay
            expected ==
                IF market.end_date = None \/ days >= 14 THEN tier_adjusted
                ELSE IF 2 * days < 14
                THEN Frac(tier_adjusted[1], 2 * tier_adjusted[2])
                ELSE Frac(tier_adjusted[1] * days, tier_adjusted[2] * 14)
        IN  /\ adjusted = expected
            /\ FracLeq(adjusted, raw)
            /\ FracGeq(Frac(2 * adjusted[1], adjusted[2]), tier_adjusted)

\* a confidence of 0.75 on a LOW market three days from its end came out at
\* half of its tier-adjusted value
C25_Witness ==
    /\ AdjustCalled
    /\ generator.call.confidence = Frac(75, 100)
    /\ generator.call.market.tier = Some("LOW")
    /\ generator.call.market.end_date = Some(clock + 3 * HoursPerDay)
    /\ generator.call.result = Frac(75 * 85, 2 * 100 * 100)

\* the state is the one a call of process_market left, and that call
\* evaluated the market
Processed == generator.call.op = "process_market"
Evaluated == Processed /\ ~generator.call.answer.skipped

\* what the cache holds of a market id: its pair, or none
Remembered(previous_states, id) ==
    IF id \in DOMAIN previous_states THEN Some(previous_states[id]) ELSE None

\* C23: an evaluation of a market with a price leaves the cache holding the
\* market's (current_price, volume_24h); every rule of an evaluation is
\* given the pair the cache held for that market id before the evaluation
\* (none when it held none), so the next evaluation passes what this one
\* stored; and the entries of the other market ids are unchanged.
C23_CacheFeedsNextEvaluation ==
    [][(generator'.call.op = "process_market"
        /\ ~generator'.call.answer.skipped) =>
          LET market == generator'.call.market
              seen == generator'.call.answer.seen
              before == Remembered(generator.previous_states, market.id)
          IN  /\ market.current_price # None
                    => Remembered(generator'.previous_states, market.id)
                           = Some([price |-> Val(market.current_price),
                                   volume_24h |-> market.volume_24h])
              /\ Len(seen) = Len(Rules)
              /\ \A i \in DOMAIN seen :
                    /\ seen[i].previous_price
                           = IF before = None THEN None
                             ELSE Some(Val(before).price)
                    /\ seen[i].previous_volume_24h
                           = IF before = None THEN None
                             ELSE Some(Val(before).volume_24h)
              /\ \A id \in GenMarketIds \ {market.id} :
                    Remembered(generator'.previous_states, id)
                        = Remembered(generator.previous_states, id)
      ]_vars

\* market 1, remembered at (0.40, 20), was evaluated at (0.50, 60): the rules
\* were given (0.40, 20), the cache now holds (0.50, 60), and market 2 has an
\* entry of its own
C23_Witness ==
    /\ Evaluated
    /\ generator.call.market.id = 1
    /\ generator.call.answer.seen[4].previous_price = Some(40)
    /\ generator.call.answer.seen[4].previous_volume_24h = Some(20)
    /\ generator.previous_states[1] = [price |-> 50, volume_24h |-> 60]
    /\ 2 \in DOMAIN generator.previous_states

\* the signals of a candidate's type among those returned
SignalsOfType(signals, signal_type) ==
    SelectSeq(signals, LAMBDA sig : sig.signal_type = signal_type)

\* C24: every signal process_market returns has a confidence of at least
\* min_confidence; a candidate a rule produced yields a signal exactly when
\* its raw confidence and its quality-adjusted confidence are both at least
\* min_confidence, and the signal carries the adjusted one; a market the
\* quality filter rejects yields no signal.
C24_SignalsMeetMinConfidence ==
    Processed =>
        LET answer == generator.call.answer
            market == generator.call.market
        IN  /\ \A k \in DOMAIN answer.signals :
                  FracGeq(answer.signals[k].confidence, MinConfidence)
            /\ answer.skipped => answer.signals = <<>>
            /\ \A i \in DOMAIN answer.answers :
                  (~answer.answers[i].raised
                   /\ answer.answers[i].value # None) =>
                      LET candidate == Val(answer.answers[i].value)
                          adjusted ==
                              AdjustConfidenceForQuality(
                                  candidate.confidence, market, clock)
                          made == SignalsOfType(answer.signals,
                                                candidate.signal_type)
                      IN  IF FracGeq(candidate.confidence, MinConfidence)
                             /\ FracGeq(adjusted, MinConfidence)
                          THEN /\ Len(made) = 1
                               /\ made[1].confidence = adjusted
                          ELSE made = <<>>

\* a call in which a candidate passed the raw threshold, fell below it after
\* the quality adjustment and was dropped, while another became a signal
C24_Witness ==
    /\ Evaluated
    /\ Len(generator.call.answer.signals) >= 1
    /\ Len(generator.call.answer.candidates)
           > Len(generator.call.answer.signals)

\* C26: every signal process_market returns is ACTIVE with no tracking
\* field set, carries the market's id, and its entry snapshot is the
\* market's: entry_price is the market's current price, and the entry
\* volumes, the liquidity and the tier are the market's.
C26_EntrySnapshotIsTheMarket ==
    Processed =>
        \A k \in DOMAIN generator.call.answer.signals :
            LET signal == generator.call.answer.signals[k]
                market == generator.call.market
            IN  /\ signal.status = "ACTIVE"
                /\ signal.resolved_at = None
                /\ signal.price_1h = None /\ signal.price_24h = None
                /\ signal.price_7d = None
                /\ signal.price_at_resolution = None
                /\ signal.gain_1h_pct = None /\ signal.gain_24h_pct = None
                /\ signal.gain_7d_pct = None
                /\ signal.gain_final_pct = None
                /\ signal.market_id = market.id
                /\ market.current_price = Some(signal.entry_price)
                /\ signal.entry_volume_24h = market.volume_24h
                /\ signal.entry_volume_total = market.volume
                /\ signal.entry_liquidity = market.liquidity
                /\ signal.market_tier
                       = IF market.tier # None THEN Val(market.tier)
                         ELSE ComputeTier(market.volume)

\* C27: a process_market with persistence does not raise when create_signal
\* does: it returns the signals it returns without persistence, and hands
\* every one of them to create_signal, in order, those after a failed one
\* included.
C27_PersistFailureIsNotRaised ==
    [][(generator'.call.op = "process_market"
        /\ generator'.call.persistence.persist) =>
          LET call == generator'.call
              unpersisted ==
                  ProcessMarket(generator.previous_states, call.market,
                                call.context.news_sentiment,
                                call.context.social_mentions,
                                call.context.social_sentiment,
                                FALSE, TRUE, {}, DefaultQualitySettings,
                                MinConfidence, clock)
          IN  /\ ~call.answer.raised
              /\ call.answer.signals = unpersisted.signals
              /\ Len(call.answer.writes) = Len(call.answer.signals)
              /\ \A k \in DOMAIN call.answer.writes :
                    /\ call.answer.writes[k].signal = call.answer.signals[k]
                    /\ call.answer.writes[k].raised
                           <=> k \in call.persistence.faults
      ]_vars

\* a call whose first create_signal raised: it did not raise, returned three
\* signals and handed the second and the third to the store
C27_Witness ==
    /\ Processed
    /\ generator.call.persistence = Persistence(TRUE, {1})
    /\ ~generator.call.answer.raised
    /\ Len(generator.call.answer.signals) = 3
    /\ Len(generator.call.answer.writes) = 3
    /\ generator.call.answer.writes[1].raised
    /\ ~generator.call.answer.writes[2].raised
    /\ ~generator.call.answer.writes[3].raised

\* C30: a candidate of SentimentDivergenceRule is a BUY only on a score
\* above min_sentiment_strength and a SELL only on a score below
\* -min_sentiment_strength.
C30_DirectionFollowsSentiment ==
    (/\ generator.call.op = "SentimentDivergenceRule.evaluate"
     /\ generator.call.result.value # None) =>
        LET candidate == Val(generator.call.result.value)
            sentiment == Val(generator.call.news_sentiment).sentiment_score
        IN  /\ candidate.direction = "BUY"
                  => sentiment > MinSentimentStrength
            /\ candidate.direction = "SELL"
                  => sentiment < 0 - MinSentimentStrength

\* the wrapped call of the execute that has just returned failed with a
\* rate-limit response that carried no retry-after value
RateLimitSignal(call) ==
    /\ call.op = "execute.return"
    /\ call.outcome.kind = "http" /\ call.outcome.status = 429
    /\ RetrySeconds(call.outcome.retry_after) = None

\* C28: execute never raises: it returns the default when the source is
\* backed off and when the wrapped call fails with a rate-limit response,
\* another HTTP error, a timeout, a request error or any other exception.
C28_ExecuteNeverRaises ==
    /\ limiter.call.op = "execute.skip"
          => limiter.call.answer = Returns("default")
    /\ limiter.call.op = "execute.return"
          => /\ ~limiter.call.answer.raised
             /\ limiter.call.outcome.kind # "ok"
                   => limiter.call.answer = Returns("default")

\* C29: a rate-limit signal without a retry-after value records the base
\* window when no rate-limit signal came since the last successful call, and
\* twice the window of the previous signal otherwise, never more than 7200
\* seconds; rate_limited_until is the time of the signal plus the window;
\* and an execute begun before rate_limited_until does not invoke the
\* wrapped call.
C29_BackoffDoubles ==
    [][/\ RateLimitSignal(limiter'.call) =>
            LET window == limiter'.call.window
                base == ApiRetryAfterMinutes * SecondsPerMinute
            IN  /\ window # None
                /\ Val(window) <= MaxBackoffSeconds
                /\ limiter'.rate_limited_until = Some(clock + Val(window))
                /\ limiter.streak = None => Val(window) = base
                /\ (limiter.streak # None /\ ~Val(limiter.streak).given)
                      => Val(window)
                             = Smaller(2 * Val(limiter.streak).window,
                                       MaxBackoffSeconds)
       /\ (/\ limiter.rate_limited_until # None
           /\ clock < Val(limiter.rate_limited_until)
           /\ limiter'.call.op \in {"execute.skip", "execute.await"})
              => limiter'.call.op = "execute.skip"
      ]_vars


\* the source is backed off: a window is recorded and has not elapsed
BackedOff(client, now) ==
    client.rate_limited_until # None /\ now < Val(client.rate_limited_until)

\* C37: an execute begun while the source is backed off returns without
\* invoking the wrapped call and leaves rate_limited_until,
\* consecutive_failures and last_error as they were; an execute that invokes
\* the wrapped call was begun with no window recorded or with the window
\* elapsed.
C37_BackedOffExecuteIsSkipped ==
    [][/\ (/\ BackedOff(limiter, clock)
           /\ limiter'.call.op \in {"execute.skip", "execute.await"})
              => /\ limiter'.call.op = "execute.skip"
                 /\ limiter'.call.answer = Returns("default")
                 /\ limiter'.pending = limiter.pending
                 /\ ClientFields(limiter') = ClientFields(limiter)
       /\ limiter'.call.op = "execute.await"
              => /\ ~BackedOff(limiter, clock)
                 /\ limiter'.pending = limiter.pending + 1
      ]_vars

\* an execute was skipped half a base window after a rate-limit signal, the
\* window and the counter of the signal still recorded
C37_Witness ==
    /\ limiter.call.op = "execute.skip"
    /\ clock = LimiterStep
    /\ limiter.rate_limited_until
           = Some(ApiRetryAfterMinutes * SecondsPerMinute)
    /\ limiter.consecutive_failures = 1
    /\ limiter.last_error = Some("HTTP 429: Rate limited")
    /\ limiter.pending = 0

\* the wrapped call of the execute that has just returned failed, and not
\* with a rate-limit response
OtherFailure(call) ==
    /\ call.op = "execute.return"
    /\ call.outcome.kind # "ok"
    /\ ~(call.outcome.kind = "http" /\ call.outcome.status = 429)

\* C38: a failure of the wrapped call that is not a rate-limit response
\* leaves rate_limited_until and consecutive_failures unchanged, so the
\* source is as available afterwards as it was before; execute returns the
\* default and records last_error.
C38_OtherFailureStartsNoBackoff ==
    [][OtherFailure(limiter'.call) =>
          /\ limiter'.rate_limited_until = limiter.rate_limited_until
          /\ limiter'.consecutive_failures = limiter.consecutive_failures
          /\ ClientIsAvailable(limiter', clock).available
                 = ClientIsAvailable(limiter, clock).available
          /\ limiter'.last_error # None
          /\ limiter'.call.answer = Returns("default")
      ]_vars

\* a timeout on a client that had never failed: no window, no counted
\* failure, the error recorded
C38_Witness ==
    /\ OtherFailure(limiter.call)
    /\ limiter.call.outcome.kind = "timeout"
    /\ limiter.call.before.last_error = None
    /\ limiter.rate_limited_until = None
    /\ limiter.consecutive_failures = 0
    /\ limiter.last_error = Some("Request timeout")


\* the step left a call of SentimentDivergenceRule.evaluate
DivergenceCalled == generator.call.op = "SentimentDivergenceRule.evaluate"

\* C31: SentimentDivergenceRule returns no candidate when there is no news
\* sentiment object, and none when |sentiment| < min_sentiment_strength,
\* whatever the price and the article count.
C31_NoCandidateInDeadZone ==
    DivergenceCalled =>
        LET news_sentiment == generator.call.news_sentiment
        IN  (\/ news_sentiment = None
             \/ Abs(Val(news_sentiment).sentiment_score)
                    < MinSentimentStrength)
                => generator.call.result = NoCandidate

\* a score of 0.29 backed by fifteen articles on a market at 0.80, which a
\* score not in the dead zone would have made a SELL, gave no candidate
C31_Witness ==
    /\ DivergenceCalled
    /\ generator.call.news_sentiment = Some(NewsSentiment(29, 15))
    /\ generator.call.market.current_price = Some(80)
    /\ generator.call.result = NoCandidate


\* the step left a call of the evaluate of a rule
RuleCalled ==
    generator.call.op \in
        {"SentimentDivergenceRule.evaluate", "VolumeSurgeRule.evaluate",
         "SocialSpikeRule.evaluate", "PriceMomentumRule.evaluate"}

\* 0 <= a <= 1
InUnitInterval(a) == FracGeq(a, Frac(0, 1)) /\ FracLeq(a, Frac(1, 1))

\* C32: the confidence of a candidate a rule produces is within [0,1], for
\* each of the four rules, and so is the confidence of every candidate of
\* a process_market and of every Signal it returns after the quality
\* adjustment.
C32_ConfidenceInUnitInterval ==
    /\ (/\ RuleCalled
        /\ ~generator.call.result.raised
        /\ generator.call.result.value # None)
          => InUnitInterval(Val(generator.call.result.value).confidence)
    /\ Processed =>
          /\ \A i \in DOMAIN generator.call.answer.answers :
                LET answer == generator.call.answer.answers[i]
                IN  (~answer.raised /\ answer.value # None)
                        => InUnitInterval(Val(answer.value).confidence)
          /\ \A k \in DOMAIN generator.call.answer.signals :
                InUnitInterval(generator.call.answer.signals[k].confidence)

\* a 24h volume ten times the remembered one, where (ratio - 3) / 2 + 0.5
\* is 4: the VOLUME_SURGE candidate has confidence 1
C32_Witness ==
    /\ generator.call.op = "VolumeSurgeRule.evaluate"
    /\ generator.call.market.volume_24h = 200
    /\ generator.call.previous_volume_24h = Some(20)
    /\ generator.call.result.value # None
    /\ Val(generator.call.result.value).confidence = Frac(1, 1)


\* the elements of a sequence
Elements(seq) == {seq[i] : i \in DOMAIN seq}

\* C33: an evaluate_market of a Generator whose rules are in any order
\* returns the candidates, as a set, that the Generator with the rules in
\* their usual order returns on the same market, contexts and cache, and
\* leaves the same cache; every rule is run once, and every rule answers
\* what it answers in the usual order, after a rule that raised too.
C33_RuleOrderIsIrrelevant ==
    [][generator'.call.op = "evaluate_market" =>
          LET call == generator'.call
              usual ==
                  EvaluateMarket(Rules, generator.previous_states,
                                 call.market, call.context.news_sentiment,
                                 call.context.social_mentions,
                                 call.context.social_sentiment,
                                 MinConfidence)
          IN  /\ Elements(call.answer.candidates)
                     = Elements(usual.candidates)
              /\ Len(call.answer.candidates) = Len(usual.candidates)
              /\ generator'.previous_states = usual.previous_states
              /\ Len(call.answer.seen) = Len(Rules)
              /\ \A i \in DOMAIN Rules :
                    /\ call.answer.seen[i].rule = call.rules[i]
                    /\ \A j \in DOMAIN Rules :
                          call.rules[i] = Rules[j] =>
                              call.answer.answers[i] = usual.answers[j]
      ]_vars

\* a Generator whose first rule is PriceMomentumRule evaluated a market
\* remembered at price 0: the rule raised, and the rules run after it still
\* gave their candidates, the social spike last
C33_Witness ==
    /\ generator.call.op = "evaluate_market"
    /\ generator.call.rules[1] = "PriceMomentumRule"
    /\ generator.call.rules[4] = "SocialSpikeRule"
    /\ generator.call.answer.answers[1].raised
    /\ Len(generator.call.answer.candidates) = 2
    /\ generator.call.answer.candidates[2].signal_type = "SOCIAL_SPIKE"


\* the answer of a rule is a candidate of one of the types
CandidateOfType(answer, types) ==
    /\ ~answer.raised
    /\ answer.value # None
    /\ Val(answer.value).signal_type \in types

\* C40: a process_market on a market the quality filter rejects returns no
\* signal and leaves the cache of previous states as it was; a
\* process_market that evaluates a market gives the rules the state the
\* cache held for it before the call; and when the cache held none, no rule
\* answers a VOLUME_SURGE or a PRICE_MOMENTUM candidate.
C40_SkipLeavesCacheFirstHasNoMomentum ==
    [][generator'.call.op = "process_market" =>
          LET call == generator'.call
              before == Remembered(generator.previous_states, call.market.id)
          IN  /\ call.answer.skipped
                    => /\ generator'.previous_states
                              = generator.previous_states
                       /\ call.answer.signals = <<>>
                       /\ call.answer.answers = <<>>
              /\ ~call.answer.skipped
                    => /\ \A i \in DOMAIN call.answer.seen :
                             /\ call.answer.seen[i].previous_price
                                    = IF before = None THEN None
                                      ELSE Some(Val(before).price)
                             /\ call.answer.seen[i].previous_volume_24h
                                    = IF before = None THEN None
                                      ELSE Some(Val(before).volume_24h)
                       /\ before = None
                             => \A i \in DOMAIN call.answer.answers :
                                   ~CandidateOfType(
                                        call.answer.answers[i],
                                        {"VOLUME_SURGE", "PRICE_MOMENTUM"})
      ]_vars

\* market 1, remembered at (0.40, 20), was rejected as closed at
\* (0.50, 60): the cache still holds (0.40, 20)
C40_Witness ==
    /\ Processed
    /\ generator.call.answer.skipped
    /\ generator.call.market.id = 1
    /\ generator.call.market.current_price = Some(50)
    /\ generator.call.market.volume_24h = 60
    /\ 1 \in DOMAIN generator.previous_states
    /\ generator.previous_states[1] = [price |-> 40, volume_24h |-> 20]


\* C39: the ScanResult of a run_scan over a non-empty list of resolved
\* markets has markets_scanned plus the number of errors equal to the
\* number of markets, and signals_generated equal to the number of signals
\* returned; over an empty list it has no market scanned, no signal, one
\* error, and the scan calls the Generator for no market and writes nothing
\* to the store.
C39_ScanCountersAddUp ==
    scan.op = "run_scan" =>
        IF scan.markets # <<>>
        THEN /\ scan.result.markets_scanned + Len(scan.result.errors)
                    = Len(scan.markets)
             /\ scan.result.signals_generated = Len(scan.result.signals)
        ELSE /\ scan.result.markets_scanned = 0
             /\ scan.result.signals_generated = 0
             /\ scan.result.signals = <<>>
             /\ Len(scan.result.errors) = 1
             /\ scan.calls = <<>>
             /\ scan.writes = <<>>

\* a scan of three markets in which the Generator raised for one, returned
\* a signal for another and none for the third
C39_Witness ==
    /\ scan.op = "run_scan"
    /\ Len(scan.markets) = 3
    /\ scan.result.markets_scanned = 2
    /\ Len(scan.result.errors) = 1
    /\ scan.result.signals_generated = 1
    /\ Len(scan.result.signals) = 1


\* the tracking block of a signal, without resolved_at
TrackingFields(signal) ==
    <<signal.price_1h, signal.price_24h, signal.price_7d,
      signal.price_at_resolution, signal.gain_1h_pct, signal.gain_24h_pct,
      signal.gain_7d_pct, signal.gain_final_pct>>

\* C35: when the two tracking runs interleave at their suspension points,
\* a signal that one run has moved to a terminal status in the store is not
\* given a different status or further tracking fields by a step of the
\* other run.
C35_TerminalNotOverwrittenByOtherRun ==
    [][\A id \in DOMAIN store :
          (/\ store[id].status \in TerminalStatus
           /\ run.moved[id] # None
           /\ last'.op = "run"
           /\ last'.task # Val(run.moved[id]))
             => /\ store'[id].status = store[id].status
                /\ TrackingFields(store'[id]) = TrackingFields(store[id])]_vars

\* C36: in every state of the store, resolved_at is set exactly when the
\* status is terminal, and price_at_resolution and gain_final_pct are set
\* exactly when the status is RESOLVED_WIN or RESOLVED_LOSS.
C36_ResolutionFieldsMatchStatus ==
    \A id \in DOMAIN store :
        LET s == store[id]
            resolved == s.status \in {"RESOLVED_WIN", "RESOLVED_LOSS"}
        IN  /\ (s.resolved_at # None) <=> (s.status \in TerminalStatus)
            /\ (s.price_at_resolution # None) <=> resolved
            /\ (s.gain_final_pct # None) <=> resolved


\* the markets of a list that are closed or archived
ClosedOrArchived(markets) ==
    {markets[i].id : i \in {j \in 1..Len(markets) :
                               markets[j].closed \/ markets[j].archived}}

\* C34: get_markets of the mock source, like that of the real one, returns
\* a list whatever filter_current is; with filter_current=True or left out
\* the list has no closed and no archived market; with filter_current=False
\* it has the closed and archived markets the source lists for the call.
C34_MockFiltersLikeReal ==
    scan.op = "get_markets" =>
        /\ ~scan.answer.raised
        /\ (scan.filter_current = None \/ Val(scan.filter_current))
              => ClosedOrArchived(scan.answer.value) = {}
        /\ (scan.filter_current # None /\ ~Val(scan.filter_current))
              => ClosedOrArchived(scan.answer.value)
                    = ClosedOrArchived(
                          FilterActive(Slice(scan.held, scan.offset,
                                             DefaultLimit), scan.active))


====
